---------------------------- MODULE Spec2Model ----------------------------
(***************************************************************************)
(* Model of the summarization pipeline of daily-newsletter:                *)
(*   src/src/llm.py         batch_summarize, _build_prompt,                *)
(*                          _parse_response, _validate_summary,            *)
(*                          _fallback_summarize, _fallback_section         *)
(*   src/src/summarizer.py  summarize, _bold_key_terms                     *)
(*                                                                         *)
(* A Python str is a sequence of one-character strings; a code point       *)
(* outside ASCII is written "U+<hex>" and is one element of the sequence.  *)
(***************************************************************************)
EXTENDS Integers, Sequences, FiniteSets, TLC

(***************************************************************************)
(* str primitives                                                          *)
(***************************************************************************)
WS == {" ", "\n", "\t", "\r"}
Lower == {"a","b","c","d","e","f","g","h","i","j","k","l","m",
          "n","o","p","q","r","s","t","u","v","w","x","y","z"}
Upper == {"A","B","C","D","E","F","G","H","I","J","K","L","M",
          "N","O","P","Q","R","S","T","U","V","W","X","Y","Z"}
Digit == {"0","1","2","3","4","5","6","7","8","9"}
Letter == Lower \cup Upper
WordChar == Letter \cup Digit \cup {"_"}

Min(a, b) == IF a < b THEN a ELSE b

\* s[:n]
Take(s, n) == SubSeq(s, 1, Min(n, Len(s)))
\* s[n:]
Drop(s, n) == SubSeq(s, Min(n, Len(s)) + 1, Len(s))

\* s[p:].startswith(sub), p counted from 1
MatchAt(s, sub, p) ==
    /\ p >= 1
    /\ p + Len(sub) - 1 <= Len(s)
    /\ \A i \in 1..Len(sub) : s[p + i - 1] = sub[i]

StartsWith(s, sub) == MatchAt(s, sub, 1)
EndsWith(s, sub) == MatchAt(s, sub, Len(s) - Len(sub) + 1)
\* sub in s
Contains(s, sub) == \E p \in 1..(Len(s) + 1) : MatchAt(s, sub, p)

MinOf(S) == CHOOSE x \in S : \A y \in S : x <= y
MaxOf(S) == CHOOSE x \in S : \A y \in S : x >= y

\* first index >= p whose character is outside set, Len(s) + 1 when none
RunEnd(s, p, set) ==
    LET stops == {q \in p..Len(s) : s[q] \notin set}
    IN  IF p > Len(s) THEN p ELSE IF stops = {} THEN Len(s) + 1 ELSE MinOf(stops)

\* s.lstrip(), s.rstrip(), s.strip(), s.rstrip('.')
LStrip(s) == SubSeq(s, RunEnd(s, 1, WS), Len(s))
RStripSet(s, set) ==
    LET keep == {q \in 1..Len(s) : s[q] \notin set}
    IN  IF keep = {} THEN <<>> ELSE SubSeq(s, 1, MaxOf(keep))
RStrip(s) == RStripSet(s, WS)
Strip(s) == RStrip(LStrip(s))
RStripDot(s) == RStripSet(s, {"."})

\* index of the first occurrence of sub at or after p, 0 when none
FindFrom(s, sub, p) ==
    LET at == {q \in p..Len(s) : MatchAt(s, sub, q)}
    IN  IF at = {} THEN 0 ELSE MinOf(at)

\* s.replace(old, new): leftmost non-overlapping occurrences, old non-empty
RECURSIVE ReplaceFrom(_, _, _, _)
ReplaceFrom(s, old, new, p) ==
    LET q == FindFrom(s, old, p)
    IN  IF q = 0 THEN SubSeq(s, p, Len(s))
        ELSE SubSeq(s, p, q - 1) \o new \o ReplaceFrom(s, old, new, q + Len(old))
Replace(s, old, new) == ReplaceFrom(s, old, new, 1)

\* s.split(sep), sep non-empty: the pieces between the occurrences of sep
RECURSIVE SplitFrom(_, _, _)
SplitFrom(s, sep, p) ==
    LET q == FindFrom(s, sep, p)
    IN  IF q = 0 THEN <<SubSeq(s, p, Len(s))>>
        ELSE <<SubSeq(s, p, q - 1)>> \o SplitFrom(s, sep, q + Len(sep))
Split(s, sep) == SplitFrom(s, sep, 1)

\* sep.join(parts)
RECURSIVE Join(_, _)
Join(parts, sep) ==
    IF parts = <<>> THEN <<>>
    ELSE IF Len(parts) = 1 THEN parts[1]
    ELSE parts[1] \o sep \o Join(Tail(parts), sep)

\* [x.strip() for x in parts if x.strip()]
StripNonEmpty(parts) ==
    LET stripped == [i \in 1..Len(parts) |-> Strip(parts[i])]
    IN  SelectSeq(stripped, LAMBDA x : x # <<>>)


UpperSeq == <<"A","B","C","D","E","F","G","H","I","J","K","L","M",
              "N","O","P","Q","R","S","T","U","V","W","X","Y","Z">>
LowerSeq == <<"a","b","c","d","e","f","g","h","i","j","k","l","m",
              "n","o","p","q","r","s","t","u","v","w","x","y","z">>
\* str.lower(), one character
LowerChar(c) ==
    IF c \in Upper THEN LowerSeq[CHOOSE i \in 1..26 : UpperSeq[i] = c] ELSE c
\* s.lower()
ToLower(s) == [i \in 1..Len(s) |-> LowerChar(s[i])]

\* the maximal runs of \w characters of s, in order
RECURSIVE WordRunsFrom(_, _)
WordRunsFrom(s, p) ==
    IF p > Len(s) THEN <<>>
    ELSE IF s[p] \in WordChar
         THEN LET e == RunEnd(s, p, WordChar)
              IN  <<SubSeq(s, p, e - 1)>> \o WordRunsFrom(s, e)
         ELSE WordRunsFrom(s, p + 1)
WordRuns(s) == WordRunsFrom(s, 1)

SeqToSet(q) == {q[i] : i \in 1..Len(q)}

(***************************************************************************)
(* summarizer.py                                                           *)
(***************************************************************************)
StrongOpen == <<"<","s","t","r","o","n","g",">">>
StrongClose == <<"<","/","s","t","r","o","n","g",">">>
Strong(s) == StrongOpen \o s \o StrongClose

\* (?<!\w) at index p
NoWordBefore(s, p) == p = 1 \/ s[p - 1] \notin WordChar

\* end (exclusive) of the greedy \d[\d,]*\.?\d* starting at the digit s[p]
NumCoreEnd(s, p) ==
    LET a == RunEnd(s, p + 1, Digit \cup {","})
        b == IF a <= Len(s) /\ s[a] = "." THEN a + 1 ELSE a
    IN  RunEnd(s, b, Digit)

UnitWords == { <<"p","e","r","c","e","n","t">>, <<"m","i","l","l","i","o","n">>,
               <<"b","i","l","l","i","o","n">>, <<"t","h","o","u","s","a","n","d">> }

\* end (exclusive) of the match of the pattern of line 17 at index p, 0 when
\* it does not match there
StatMatchEnd(s, p) ==
    LET dollar == s[p] = "$"
        d == IF dollar THEN p + 1 ELSE p
    IN  IF ~NoWordBefore(s, p) \/ d > Len(s) \/ s[d] \notin Digit THEN 0
        ELSE LET core == NumCoreEnd(s, d)
                 ws == RunEnd(s, core, WS)
                 low == ToLower(s)
             IN  IF ws <= Len(s) /\ s[ws] = "%" THEN ws + 1
                 ELSE IF dollar
                      THEN IF core <= Len(s) /\ s[core] \in {"B","M","K","b","m","k"}
                           THEN core + 1 ELSE core
                 ELSE IF \E u \in UnitWords : MatchAt(low, u, ws)
                      THEN ws + Len(CHOOSE u \in UnitWords : MatchAt(low, u, ws))
                 ELSE 0

\* end (exclusive) of the match of the pattern of line 23 at index p, else 0
PercentMatchEnd(s, p) ==
    IF ~NoWordBefore(s, p) \/ s[p] \notin Digit THEN 0
    ELSE LET a == RunEnd(s, p + 1, Digit \cup {","})
             frac == a + 1 <= Len(s) /\ s[a] = "." /\ s[a + 1] \in Digit
             b == IF frac THEN RunEnd(s, a + 1, Digit) ELSE a
         IN  IF b <= Len(s) /\ s[b] = "%" THEN b + 1
             ELSE IF a <= Len(s) /\ s[a] = "%" THEN a + 1
             ELSE 0

\* re.sub(r'"([^"]+)"', ...): end (exclusive) of a quoted run at p, else 0
QuoteMatchEnd(s, p) ==
    IF s[p] # "\"" THEN 0
    ELSE LET q == RunEnd(s, p + 1, SeqToSet(s) \ {"\""})
         IN  IF q <= Len(s) /\ q > p + 1 THEN q + 1 ELSE 0

\* end (exclusive) of the match at index p of the pattern named kind, else 0
MatchEnd(s, p, kind, word) ==
                  CASE kind = "stat" -> StatMatchEnd(s, p)
                    [] kind = "percent" -> PercentMatchEnd(s, p)
                    [] kind = "quote" -> QuoteMatchEnd(s, p)
                    [] kind = "word" ->
                         IF /\ MatchAt(s, word, p)
                            /\ NoWordBefore(s, p)
                            /\ (p + Len(word) > Len(s) \/ s[p + Len(word)] \notin WordChar)
                            /\ ~MatchAt(s, StrongOpen, p - Len(StrongOpen))
                            /\ ~(p > 1 /\ s[p - 1] = "/")
                            /\ ~MatchAt(s, StrongClose, p + Len(word))
                         THEN p + Len(word) ELSE 0
                    [] kind = "open" ->
                         IF MatchAt(s, StrongOpen, p)
                            /\ MatchAt(s, StrongOpen, RunEnd(s, p + Len(StrongOpen), WS))
                         THEN RunEnd(s, p + Len(StrongOpen), WS) + Len(StrongOpen) ELSE 0
                    [] kind = "close" ->
                         IF MatchAt(s, StrongClose, p)
                            /\ MatchAt(s, StrongClose, RunEnd(s, p + Len(StrongClose), WS))
                         THEN RunEnd(s, p + Len(StrongClose), WS) + Len(StrongClose) ELSE 0

\* the replacement of the match s[q..e-1] (lines 18, 24, 27, 45, 50, 51)
Replacement(s, q, e, kind) ==
    CASE kind = "quote" -> <<"\"">> \o Strong(SubSeq(s, q + 1, e - 2)) \o <<"\"">>
      [] kind = "open" -> StrongOpen
      [] kind = "close" -> StrongClose
      [] OTHER -> Strong(SubSeq(s, q, e - 1))

\* re.sub over s from index p, leftmost non-overlapping matches: at holds the
\* indices from p on where the pattern matches, q is the first of them and e
\* the end of the match at q
RECURSIVE SubFrom(_, _, _, _)
SubMatch(s, p, kind, word, q, e) ==
    SubSeq(s, p, q - 1) \o Replacement(s, q, e, kind) \o SubFrom(s, e, kind, word)
SubFirst(s, p, kind, word, q) == SubMatch(s, p, kind, word, q, MatchEnd(s, q, kind, word))
SubIn(s, p, kind, word, at) ==
    IF at = {} THEN SubSeq(s, p, Len(s)) ELSE SubFirst(s, p, kind, word, MinOf(at))
SubFrom(s, p, kind, word) ==
    SubIn(s, p, kind, word, {q \in p..Len(s) : MatchEnd(s, q, kind, word) # 0})

Stopwords == {
    <<"T","h","e">>, <<"T","h","i","s">>, <<"T","h","a","t">>,
    <<"W","i","t","h">>, <<"F","r","o","m">>, <<"T","h","e","y">>,
    <<"T","h","e","i","r">>, <<"W","h","a","t">>, <<"W","h","e","n">>,
    <<"W","h","e","r","e">>, <<"W","h","i","c","h">>,
    <<"A","b","o","u","t">>, <<"I","n","t","o">>, <<"O","v","e","r">>,
    <<"A","f","t","e","r">>, <<"B","e","f","o","r","e">>,
    <<"B","e","t","w","e","e","n">>, <<"U","n","d","e","r">>,
    <<"H","o","w">>, <<"A","r","e">>, <<"W","a","s">>, <<"W","e","r","e">>,
    <<"H","a","s">>, <<"H","a","d">>, <<"H","a","v","e">>,
    <<"D","o","e","s">>, <<"D","i","d">>, <<"C","a","n">>,
    <<"C","o","u","l","d">>, <<"W","i","l","l">>, <<"W","o","u","l","d">>,
    <<"S","h","o","u","l","d">>, <<"M","a","y">>, <<"M","i","g","h","t">>,
    <<"I","t","s">>, <<"F","o","r">>, <<"A","n","d">>, <<"B","u","t">>,
    <<"N","o","t">>, <<"Y","o","u">>, <<"A","l","l">>, <<"A","n","y">>,
    <<"F","e","w">>, <<"M","o","r","e">>, <<"M","o","s","t">>,
    <<"S","o","m","e">>, <<"S","u","c","h">>, <<"T","h","a","n">>,
    <<"T","o","o">>, <<"V","e","r","y">>, <<"J","u","s","t">>,
    <<"A","l","s","o">>, <<"N","e","w">>, <<"O","u","r">> }

\* re.findall(r'\b([A-Z][a-zA-Z]{2,})\b', title) minus the stopwords
TitleWords(title) ==
    { w \in SeqToSet(WordRuns(title)) :
        /\ Len(w) >= 3
        /\ w[1] \in Upper
        /\ \A i \in 1..Len(w) : w[i] \in Letter
        /\ w \notin Stopwords }

\* the orders in which the loop of line 40 walks title_words, a set of strings
\* whose order changes from one process to the next: some order, and the same
\* order backwards (every order of a set of two words)
Walks == {"forward", "backward"}

\* a faulty variant of BoldWords: the loop ends after the first word it walks
RECURSIVE BoldWordsFirstOnly(_, _, _)
BoldWordsFirstOnly(s, words, walk) ==
    IF words = {} THEN s
    ELSE LET w == CHOOSE x \in words : TRUE
         IN  IF walk = "forward" \/ words = {w} THEN SubFrom(s, 1, "word", w)
             ELSE BoldWordsFirstOnly(s, words \ {w}, walk)

\* the loop of lines 40-46, the words walked in the order of walk
RECURSIVE BoldWords(_, _, _)
BoldWords(s, words, walk) ==
    IF words = {} THEN s
    ELSE LET w == CHOOSE x \in words : TRUE
         IN  IF walk = "forward"
             THEN BoldWords(SubFrom(s, 1, "word", w), words \ {w}, walk)
             ELSE SubFrom(BoldWords(s, words \ {w}, walk), 1, "word", w)

\* lines 40-46
BoldTitle(s, title, walk) ==
    IF title # <<>> THEN BoldWords(s, TitleWords(title), walk) ELSE s

_bold_key_terms(summary, title, walk) ==
    SubFrom(SubFrom(BoldTitle(SubFrom(SubFrom(SubFrom(summary, 1, "stat", <<>>),
                                              1, "percent", <<>>),
                                      1, "quote", <<>>),
                              title, walk),
                    1, "open", <<>>),
            1, "close", <<>>)


\* PlaintextParser/Tokenizer of sumy: the sentences of a plain text, each ending
\* at a terminator that is followed by white space or by the end of the text
RECURSIVE DocSentencesFrom(_, _)
DocSplit(text, p, ends) ==
    IF p > Len(text) THEN <<>>
    ELSE IF ends = {} THEN <<SubSeq(text, p, Len(text))>>
    ELSE <<SubSeq(text, p, MinOf(ends))>> \o DocSentencesFrom(text, MinOf(ends) + 1)
DocSentencesFrom(text, p) ==
    DocSplit(text, p, {q \in p..Len(text) :
                          /\ text[q] \in {".", "!", "?"}
                          /\ (q = Len(text) \/ text[q + 1] \in WS)})
DocSentences(text) == StripNonEmpty(DocSentencesFrom(text, 1))

\* LexRankSummarizer of sumy: the num most central sentences, centrality being
\* the number of other sentences sharing a word, ties to the earlier sentence;
\* the chosen sentences come back in document order
SentenceWords(sents) == [i \in 1..Len(sents) |-> SeqToSet(WordRuns(ToLower(sents[i])))]
Ratings(words) ==
    [i \in DOMAIN words |->
        Cardinality({j \in DOMAIN words : j # i /\ words[i] \cap words[j] # {}})]
Chosen(rating, num) ==
    {i \in DOMAIN rating :
        Cardinality({j \in DOMAIN rating :
                        rating[j] > rating[i] \/ (rating[j] = rating[i] /\ j < i)}) < num}
InOrder(sents, chosen) ==
    LET keep == SelectSeq([i \in 1..Len(sents) |-> i], LAMBDA i : i \in chosen)
    IN  [k \in 1..Len(keep) |-> sents[keep[k]]]
Ranked(sents, num) == InOrder(sents, Chosen(Ratings(SentenceWords(sents)), num))
LexRank(text, num) == Ranked(DocSentences(text), num)

\* sentences_rough of line 66
SentencesRough(text) ==
    StripNonEmpty(Split(Replace(Replace(text, <<"!", " ">>, <<".", "\n">>),
                                <<"?", " ">>, <<".", "\n">>), <<".">>))

\* summarize(text, num_sentences, title); sumy_runs tells whether the ranking
\* step of lines 71-73 runs to its end or raises, walk the order in which
\* _bold_key_terms walks the words of the title
\* lines 73-74
JoinedOr(joined, text) == IF Strip(joined) # <<>> THEN joined ELSE Strip(Take(text, 300))
\* lines 67-82, rough being sentences_rough
SummaryOf(text, num_sentences, title, sumy_runs, rough, walk) ==
    IF Len(rough) <= num_sentences THEN Strip(text)
    ELSE IF sumy_runs
         THEN _bold_key_terms(JoinedOr(Join(LexRank(text, num_sentences), <<" ">>), text),
                              title, walk)
         ELSE _bold_key_terms(Join(Take(rough, num_sentences), <<".", " ">>) \o <<".">>,
                              title, walk)
\* a faulty variant of summarize: a text that is empty or white space gives
\* the title
summarize_title_for_blank(text, num_sentences, title, sumy_runs, walk) ==
    IF text = <<>> \/ Strip(text) = <<>> THEN title
    ELSE SummaryOf(text, num_sentences, title, sumy_runs, SentencesRough(text), walk)
summarize(text, num_sentences, title, sumy_runs, walk) ==
    IF text = <<>> \/ Strip(text) = <<>> THEN <<>>
    ELSE SummaryOf(text, num_sentences, title, sumy_runs, SentencesRough(text), walk)

(***************************************************************************)
(* llm.py: items, sections, the extractive fallback                        *)
(***************************************************************************)
Keys == <<"news", "ai_security_news", "podcasts", "papers">>
KeySet == SeqToSet(Keys)

\* a dict entry that may be missing: kind "absent" is a missing key, "none" is
\* the value None, "str" is the string s
Absent == [kind |-> "absent", s |-> <<>>]
None == [kind |-> "none", s |-> <<>>]
Str(x) == [kind |-> "str", s |-> x]

\* item.get(field, default)
Get(entry, default) == IF entry.kind = "absent" THEN default ELSE entry

BR == <<"<", "b", "r", ">">>

\* the emoji literals of lines 315-320, read as UTF-8 (the bytes F0 9F 93 B0
\* that open line 315 are the one code point U+1F4F0)
Emojis(section_type) ==
    CASE section_type = "news" -> << <<"U+1F4F0">>, <<"U+1F4E2">>, <<"U+1F50D">> >>
      [] section_type = "ai_security_news" ->
            << <<"U+1F6E1", "U+FE0F">>, <<"U+1F510">>, <<"U+26A0", "U+FE0F">> >>
      [] section_type = "podcasts" -> << <<"U+1F3AF">>, <<"U+26A1">>, <<"U+1F4CA">> >>
      [] section_type = "papers" -> << <<"U+1F9E0">>, <<"U+1F4CA">>, <<"U+2699", "U+FE0F">> >>
      [] OTHER -> << <<"U+1F4CC">>, <<"U+1F4DD">>, <<"U+1F539">> >>

NoSummaryAvailable ==
    <<"N","o"," ","s","u","m","m","a","r","y"," ","a","v","a","i","l","a","b","l","e",".">>

\* str(x) inside an f-string
Format(entry) ==
    IF entry.kind = "none" THEN <<"N", "o", "n", "e">> ELSE entry.s

\* the text summarize() sees for an entry: a falsy text returns "" at line 60
TextArg(entry) == IF entry.kind = "str" THEN entry.s ELSE <<>>

\* a faulty variant of Bullets: every bullet opens with the first emoji
BulletsFirstEmoji(sentences, section_emojis) ==
    [j \in 1..Len(sentences) |->
        section_emojis[1] \o <<" ">> \o RStripDot(sentences[j]) \o <<".">>]
\* lines 331-334
Bullets(sentences, section_emojis) ==
    [j \in 1..Len(sentences) |->
        section_emojis[((j - 1) % Len(section_emojis)) + 1]
        \o <<" ">> \o RStripDot(sentences[j]) \o <<".">>]
BulletsOr(bullets, section_emojis, raw) ==
    IF bullets # <<>> THEN Join(bullets, BR) ELSE section_emojis[1] \o <<" ">> \o raw
\* a faulty variant of FallbackText: the title alone, without the emoji, when
\* the extractive summary is too short
FallbackTextBare(item, section_emojis, raw) ==
    IF raw = <<>> \/ Len(Strip(raw)) < 20
    THEN Format(Get(item.title, Str(NoSummaryAvailable)))
    ELSE BulletsOr(Bullets(Take(StripNonEmpty(Split(Replace(raw, BR, <<" ">>), <<".", " ">>)), 3),
                           section_emojis),
                   section_emojis, raw)
\* lines 324-335, raw being the summary of line 323
FallbackText(item, section_emojis, raw) ==
    IF raw = <<>> \/ Len(Strip(raw)) < 20
    THEN section_emojis[1] \o <<" ">> \o Format(Get(item.title, Str(NoSummaryAvailable)))
    ELSE BulletsOr(Bullets(Take(StripNonEmpty(Split(Replace(raw, BR, <<" ">>), <<".", " ">>)), 3),
                           section_emojis),
                   section_emojis, raw)
\* one turn of the loop of lines 322-335
FallbackItem(item, section_type, sumy_runs, walk) ==
    FallbackText(item, Emojis(section_type),
                 summarize(TextArg(Get(item.raw_text, Str(<<>>))), 3,
                           TextArg(Get(item.title, Str(<<>>))), sumy_runs, walk))

(***************************************************************************)
(* llm.py: _validate_summary                                               *)
(***************************************************************************)
\* the characters of the model that lie in the ranges of emoji_pattern (lines
\* 253-258): U+1F300-U+1FAFF, U+2600-U+27BF, U+FE00-U+FE0F
EmojiClass == {"U+1F4F0", "U+1F4E2", "U+1F50D", "U+1F6E1", "U+1F510", "U+1F3AF",
               "U+1F4CA", "U+1F9E0", "U+1F4CC", "U+1F4DD", "U+1F539", "U+1F4C8",
               "U+1F4B0", "U+26A0", "U+26A1", "U+2699", "U+FE0F"}

RawIndicators == {
    <<"T","h","i","s"," ","e","p","i","s","o","d","e">>,
    <<"T","o","d","a","y","'","s"," ","s","h","o","w",":">>,
    <<"m","a","d","e"," ","p","o","s","s","i","b","l","e"," ","b","y",":">>,
    <<"h","t","t","p","s",":","/","/","G","u","s","t","o",".","c","o","m">>,
    <<"c","a","l","d","e","r","a","l","a","b",".","c","o","m">>,
    <<"c","i","r","c","l","e",".","s","o">> }

\* the string of line 285, read as UTF-8 (E2 80 A6 is U+2026)
TerminalChars == {".", "!", "?", ")", "\"", "'", "U+2026", ">", "%"} \cup Digit

\* vague_patterns (lines 289-295), each a concatenation of alternatives; an
\* optional final letter ("explores?") is left out, a search finding the shorter
\* word wherever it finds the longer
VaguePatterns == <<
    <<
      { <<"t","h","e"," ">> },
      { <<"p","o","d","c","a","s","t">>, <<"e","p","i","s","o","d","e">>,
        <<"a","r","t","i","c","l","e">>, <<"p","a","p","e","r">>,
        <<"d","i","s","c","u","s","s","i","o","n">> },
      { <<" ">> },
      { <<"d","i","s","c","u","s","s","e","d">>,
        <<"e","x","p","l","o","r","e">>,
        <<"h","i","g","h","l","i","g","h","t">>,
        <<"f","o","c","u","s","e","d"," ","o","n">>,
        <<"s","u","g","g","e","s","t">>, <<"a","r","g","u","e">> }
    >>,
    <<
      { <<"m","i","g","h","t">>, <<"c","o","u","l","d">>, <<"m","a","y">> },
      { <<" ">> },
      { <<"p","o","s","e">>, <<"c","r","e","a","t","e">>,
        <<"i","n","t","r","o","d","u","c","e">>,
        <<"p","r","e","s","e","n","t">> },
      { <<" ">> },
      { <<"i","n","h","e","r","e","n","t"," ">>,
        <<"p","o","t","e","n","t","i","a","l"," ">>, <<"n","e","w"," ">>,
        <<>> },
      { <<"p","r","o","b","l","e","m","s">>,
        <<"c","h","a","l","l","e","n","g","e","s">>,
        <<"i","s","s","u","e","s">>, <<"c","o","n","c","e","r","n","s">> }
    >>,
    <<
      { <<"s","i","g","n","i","f","i","c","a","n","t">>,
        <<"s","u","b","s","t","a","n","t","i","a","l">>,
        <<"c","o","n","s","i","d","e","r","a","b","l","e">> },
      { <<" ">> },
      { <<"i","n","c","r","e","a","s","e">>,
        <<"d","e","c","r","e","a","s","e">>, <<"i","m","p","a","c","t">>,
        <<"i","m","p","l","i","c","a","t","i","o","n","s">> }
    >>,
    <<
      { <<"i","s"," ","c","r","i","t","i","c","a","l">>,
        <<"i","s"," ","e","s","s","e","n","t","i","a","l">>,
        <<"i","s"," ","i","m","p","o","r","t","a","n","t">>,
        <<"i","s"," ","k","e","y">>,
        <<"i","s"," ","c","r","u","c","i","a","l">>,
        <<"r","e","m","a","i","n","s"," ","c","h","a","l","l","e","n","g","i","n","g">> }
    >>,
    <<
      { <<"e","x","p","e","r","i","e","n","c","e","d"," ","a"," ">> },
      { <<"s","i","g","n","i","f","i","c","a","n","t">>,
        <<"n","o","t","a","b","l","e">>,
        <<"s","u","b","s","t","a","n","t","i","a","l">> },
      { <<" ">> },
      { <<"i","n","c","r","e","a","s","e">>,
        <<"d","e","c","r","e","a","s","e">>, <<"g","r","o","w","t","h">>,
        <<"d","e","c","l","i","n","e">> }
    >>
>>

\* re.match of a concatenation of alternatives at index p
RECURSIVE MatchGroups(_, _, _)
MatchGroups(s, p, groups) ==
    IF groups = <<>> THEN TRUE
    ELSE \E alt \in Head(groups) :
            MatchAt(s, alt, p) /\ MatchGroups(s, p + Len(alt), Tail(groups))

\* re.search(pattern, s) with (?i)
SearchI(s, groups) == \E p \in 1..(Len(s) + 1) : MatchGroups(ToLower(s), p, groups)

\* a faulty variant of _validate_summary: the vague patterns are searched
\* before the first letter and the ending are looked at
_validate_summary_vague_first(summary) ==
    IF summary.kind \in {"none", "zero"} THEN "empty or too short"
    ELSE IF summary.kind # "str" THEN "AttributeError"
    ELSE LET text == summary.s
             stripped == Strip(text)
             emoji_count == Cardinality({i \in 1..Len(text) : text[i] \in EmojiClass})
             bullet_count == Len(Split(text, BR))
             last_char == stripped[Len(stripped)]
         IN  IF text = <<>> \/ Len(stripped) < 10 THEN "empty or too short"
             ELSE IF emoji_count < 2 /\ bullet_count < 2 THEN "too few bullets"
             ELSE IF \E k \in 1..Len(VaguePatterns) : SearchI(stripped, VaguePatterns[k])
                  THEN "vague filler detected"
             ELSE IF stripped[1] \in Lower THEN "starts with lowercase"
             ELSE IF StartsWith(stripped, <<"h","t","t","p",":","/","/">>)
                     \/ StartsWith(stripped, <<"h","t","t","p","s",":","/","/">>)
                  THEN "starts with URL"
             ELSE IF \E indicator \in RawIndicators : Contains(text, indicator)
                  THEN "contains raw text indicator"
             ELSE IF last_char \notin TerminalChars THEN "appears cut off"
             ELSE "valid"

\* _validate_summary(summary): "valid" for None, the reason otherwise;
\* "AttributeError" when line 248 calls strip() on a value that has none
_validate_summary(summary) ==
    IF summary.kind \in {"none", "zero"} THEN "empty or too short"
    ELSE IF summary.kind # "str" THEN "AttributeError"
    ELSE LET text == summary.s
             stripped == Strip(text)
             emoji_count == Cardinality({i \in 1..Len(text) : text[i] \in EmojiClass})
             bullet_count == Len(Split(text, BR))
             last_char == stripped[Len(stripped)]
         IN  IF text = <<>> \/ Len(stripped) < 10 THEN "empty or too short"
             ELSE IF emoji_count < 2 /\ bullet_count < 2 THEN "too few bullets"
             ELSE IF stripped[1] \in Lower THEN "starts with lowercase"
             ELSE IF StartsWith(stripped, <<"h","t","t","p",":","/","/">>)
                     \/ StartsWith(stripped, <<"h","t","t","p","s",":","/","/">>)
                  THEN "starts with URL"
             ELSE IF \E indicator \in RawIndicators : Contains(text, indicator)
                  THEN "contains raw text indicator"
             ELSE IF last_char \notin TerminalChars THEN "appears cut off"
             ELSE IF \E k \in 1..Len(VaguePatterns) : SearchI(stripped, VaguePatterns[k])
                  THEN "vague filler detected"
             ELSE "valid"


(***************************************************************************)
(* llm.py: _parse_response, the reconciliation loop of lines 218-237       *)
(***************************************************************************)
\* elements of a parsed array: Str(x), None (null), Zero (a falsy value that is
\* no string: 0, false, [], {}) and Num (a truthy value that is no string)
Zero == [kind |-> "zero", s |-> <<>>]
Num == [kind |-> "num", s |-> <<>>]

\* the value of a section key in the parsed data
NoValue == [shape |-> "absent", v |-> <<>>]
ListValue(elems) == [shape |-> "list", v |-> elems]
StrValue(chars) == [shape |-> "str", v |-> chars]
DictValue(ks) == [shape |-> "dict", v |-> ks]
NullValue == [shape |-> "null", v |-> <<>>]

Raised == [ok |-> FALSE, shape |-> "none", v |-> <<>>]
Returned(shape, v) == [ok |-> TRUE, shape |-> shape, v |-> v]

\* _fallback_section(items, section_type), lines 312-336
_fallback_section(items, section_type, sumy_runs, walk) ==
    [i \in 1..Len(items) |-> FallbackItem(items[i], section_type, sumy_runs, walk)]

\* _fallback_summarize(sections), lines 304-309
SectionItems(sections, key) == IF key \in DOMAIN sections THEN sections[key] ELSE <<>>

_fallback_summarize(sections, sumy_runs, walk) ==
    [key \in KeySet |-> _fallback_section(SectionItems(sections, key), key, sumy_runs, walk)]

\* The loop of lines 219-237 for one key. fallbacks are the extractive
\* summaries of the items of the section: _fallback_section works item by
\* item, so _fallback_section(items[k:], key) of line 228 is fallbacks from
\* k on and _fallback_section([items[i]], key)[0] of line 236 is fallbacks[i].
\* issue_of gives the verdict of _validate_summary for a summary.

\* the loop of lines 231-236 over a list: the verdict of each element
Verdicts(summaries, issue_of) == [i \in 1..Len(summaries) |-> issue_of[summaries[i]]]

\* a faulty variant of Validated: a bad summary is replaced by the fallback of
\* the first item of the section
ValidatedFirst(summaries, issue, fallbacks) ==
    IF \E i \in 1..Len(summaries) : issue[i] = "AttributeError" THEN Raised
    ELSE Returned("list", [i \in 1..Len(summaries) |->
            IF issue[i] = "valid" THEN summaries[i].s ELSE fallbacks[1]])

\* a faulty variant of Validated: one bad summary sends the whole section to
\* its fallbacks
ValidatedWhole(summaries, issue, fallbacks) ==
    IF \E i \in 1..Len(summaries) : issue[i] = "AttributeError" THEN Raised
    ELSE IF \E i \in 1..Len(summaries) : issue[i] # "valid"
         THEN Returned("list", Take(fallbacks, Len(summaries)))
         ELSE Returned("list", [i \in 1..Len(summaries) |-> summaries[i].s])

\* a faulty variant of Validated: a summary with an issue is dropped, a padded
\* fallback among them
ValidatedDrops(summaries, issue, fallbacks) ==
    IF \E i \in 1..Len(summaries) : issue[i] = "AttributeError" THEN Raised
    ELSE Returned("list", [i \in 1..Cardinality({j \in 1..Len(summaries) : issue[j] = "valid"}) |->
            summaries[CHOOSE j \in 1..Len(summaries) :
                        /\ issue[j] = "valid"
                        /\ Cardinality({h \in 1..j : issue[h] = "valid"}) = i].s])

\* a faulty variant of Validated: a summary with an issue is replaced by the
\* empty string
ValidatedBlank(summaries, issue, fallbacks) ==
    IF \E i \in 1..Len(summaries) : issue[i] = "AttributeError" THEN Raised
    ELSE Returned("list", [i \in 1..Len(summaries) |->
            IF issue[i] = "valid" THEN summaries[i].s ELSE <<>>])

\* lines 229-237 for a list, issue being the verdicts of its elements
Validated(summaries, issue, fallbacks) ==
    IF \E i \in 1..Len(summaries) : issue[i] = "AttributeError" THEN Raised
    ELSE Returned("list", [i \in 1..Len(summaries) |->
            IF issue[i] = "valid" THEN summaries[i].s ELSE fallbacks[i]])

\* a faulty variant of Adjusted: a short list is left short
AdjustedNoPadding(summaries, fallbacks) ==
    IF Len(summaries) > Len(fallbacks) THEN Take(summaries, Len(fallbacks))
    ELSE summaries

\* a faulty variant of Adjusted: a short list is padded with the fallbacks of
\* the first items of the section in place of the missing ones
AdjustedWrongSlice(summaries, fallbacks) ==
    IF Len(summaries) > Len(fallbacks) THEN Take(summaries, Len(fallbacks))
    ELSE summaries \o [j \in 1..(Len(fallbacks) - Len(summaries)) |-> Str(fallbacks[j])]

\* a faulty variant of Adjusted: a long list keeps its last entries
AdjustedKeepsTail(summaries, fallbacks) ==
    IF Len(summaries) > Len(fallbacks)
    THEN SubSeq(summaries, Len(summaries) - Len(fallbacks) + 1, Len(summaries))
    ELSE summaries \o [j \in 1..(Len(fallbacks) - Len(summaries)) |->
                          Str(fallbacks[Len(summaries) + j])]

\* lines 222-228 for a list: truncated or padded to the expected length
Adjusted(summaries, fallbacks) ==
    IF Len(summaries) > Len(fallbacks) THEN Take(summaries, Len(fallbacks))
    ELSE summaries \o [j \in 1..(Len(fallbacks) - Len(summaries)) |->
                          Str(fallbacks[Len(summaries) + j])]

ReconcileList(summaries, fallbacks, issue_of) ==
    Validated(summaries, Verdicts(summaries, issue_of), fallbacks)

\* one turn of the loop: the value stored in result[key], or Raised when a
\* statement of the turn raises
ReconcileKey(value, fallbacks, issue_of) ==
    CASE value.shape \in {"absent", "list"} ->
            ReconcileList(Adjusted(value.v, fallbacks), fallbacks, issue_of)
      \* len(None) raises TypeError at line 222
      [] value.shape = "null" -> Raised
      \* a str has no extend (line 228) and no item assignment (line 236),
      \* and each of its characters is too short for line 248
      [] value.shape = "str" ->
            IF Len(value.v) >= Len(fallbacks) /\ Len(fallbacks) = 0
            THEN Returned("str", <<>>) ELSE Raised
      \* a dict takes no slice (line 224), has no extend, and the assignment
      \* of line 236 adds a key while the loop of line 231 iterates
      [] value.shape = "dict" ->
            IF /\ Len(value.v) = Len(fallbacks)
               /\ \A i \in 1..Len(value.v) : issue_of[Str(value.v[i])] = "valid"
            THEN Returned("dict", value.v) ELSE Raised

\* the summaries that the loop of lines 231-236 hands to _validate_summary in
\* a turn that raises nothing: the list after lines 222-228 have cut or padded
\* it, the keys of a dict, nothing of an empty str
Checked(value, fallbacks) ==
    CASE value.shape \in {"absent", "list"} -> Adjusted(value.v, fallbacks)
      [] value.shape = "dict" -> [i \in 1..Len(value.v) |-> Str(value.v[i])]
      [] OTHER -> <<>>

(***************************************************************************)
(* llm.py: _build_prompt                                                   *)
(***************************************************************************)
\* the order in which _build_prompt walks the sections (lines 74, 81, 101, 114)
PromptOrder == <<"news", "podcasts", "papers", "ai_security_news">>

\* the alternatives of the pattern of line 102, in its order; the 17th stands
\* between word boundaries, the 19th is followed by \w+\.\w+
SponsorPhrases == <<
    <<"b","r","o","u","g","h","t"," ","t","o"," ","y","o","u"," ","b","y">>,
    <<"s","p","o","n","s","o","r","e","d"," ","b","y">>,
    <<"u","s","e"," ","c","o","d","e">>,
    <<"p","r","o","m","o"," ","c","o","d","e">>,
    <<"s","i","g","n"," ","u","p"," ","a","t">>,
    <<"d","o","w","n","l","o","a","d"," ","i","t"," ","a","t">>,
    <<"l","e","a","r","n"," ","m","o","r","e"," ","a","t">>,
    <<"c","h","e","c","k"," ","o","u","t">>,
    <<"o","u","r"," ","s","p","o","n","s","o","r">>,
    <<"t","h","i","s"," ","e","p","i","s","o","d","e"," ","i","s">>,
    <<"d","i","s","c","o","u","n","t">>,
    <<"c","o","u","p","o","n">>,
    <<"f","r","e","e"," ","t","r","i","a","l">>,
    <<"s","p","e","c","i","a","l"," ","o","f","f","e","r">>,
    <<"p","e","r","c","e","n","t"," ","o","f","f">>,
    <<"d","o","l","l","a","r","s"," ","o","f","f">>,
    <<"p","r","o","m","o">>,
    <<"p","a","r","t","n","e","r"," ","e","v","e","n","t">>,
    <<"g","o"," ","t","o"," ">> >>

\* the match of the pattern of line 102 at index p of a text whose lower case
\* is low: the index after the match, 0 when the pattern does not match there.
\* The first alternative that matches is taken, and [^\n]{0,300} after it
\* takes what it can.
SponsorMatchEnd(low, p) ==
    LET \* the index after alternative k at p, 0 when it does not match
        AfterPhrase(k) == p + Len(SponsorPhrases[k])
        AfterHost(k) == RunEnd(low, AfterPhrase(k), WordChar)
        AfterDomain(k) == RunEnd(low, AfterHost(k) + 1, WordChar)
        AltEnd(k) ==
            IF ~MatchAt(low, SponsorPhrases[k], p) THEN 0
            ELSE IF k = 17
                 THEN IF /\ NoWordBefore(low, p)
                         /\ (AfterPhrase(k) > Len(low) \/ low[AfterPhrase(k)] \notin WordChar)
                      THEN AfterPhrase(k) ELSE 0
            ELSE IF k = 19
                 THEN IF /\ AfterHost(k) > AfterPhrase(k)
                         /\ AfterHost(k) <= Len(low) /\ low[AfterHost(k)] = "."
                         /\ AfterDomain(k) > AfterHost(k) + 1
                      THEN AfterDomain(k) ELSE 0
            ELSE AfterPhrase(k)
        \* the index after [^\n]{0,300} from index e on
        TailEnd(e) == Min(e + 300, RunEnd(low, e, {c \in SeqToSet(low) : c # "\n"}))
        First(matching) == IF matching = {} THEN 0 ELSE TailEnd(AltEnd(MinOf(matching)))
    IN  First({k \in 1..Len(SponsorPhrases) : AltEnd(k) # 0})

\* re.sub of lines 101-104 from index p on: every match is taken out
RECURSIVE StripSponsorsFrom(_, _, _)
StripSponsorsFrom(text, low, p) ==
    LET Rest(at) == IF at = {} THEN SubSeq(text, p, Len(text))
                    ELSE SubSeq(text, p, MinOf(at) - 1)
                         \o StripSponsorsFrom(text, low, SponsorMatchEnd(low, MinOf(at)))
    IN  Rest({q \in p..Len(text) : SponsorMatchEnd(low, q) # 0})

\* the text of one item as the prompt carries it: the slice of the raw text, or
\* the placeholder sentence of lines 91, 109, 119 and 127
Placeholder == [placeholder |-> TRUE, s |-> <<>>]
PromptText(key, raw_text) ==
    LET raw == TextArg(Get(raw_text, None))
        text == IF key = "podcasts" THEN Strip(raw)
                ELSE IF key = "papers" THEN Take(raw, 1500) ELSE Take(raw, 3000)
    IN  CASE key = "podcasts" ->
                IF Len(text) > 1000
                THEN [placeholder |-> FALSE,
                      s |-> Strip(Drop(Take(StripSponsorsFrom(text, ToLower(text), 1), 8000), 200))]
                ELSE IF Len(text) < 200 THEN Placeholder
                ELSE [placeholder |-> FALSE, s |-> Take(text, 5000)]
          [] key = "papers" ->
                IF Len(text) < 50 THEN Placeholder ELSE [placeholder |-> FALSE, s |-> text]
          [] OTHER ->
                IF Len(text) < 100 THEN Placeholder ELSE [placeholder |-> FALSE, s |-> text]

\* the numbered line of one item (lines 92, 112, 120, 128)
PromptLine(key, i, item) ==
    [key |-> key, n |-> i, title |-> Format(item.title), text |-> PromptText(key, item.raw_text)]

\* item['title'] raises KeyError for an item that has no title
PromptRaises(sections) ==
    \E key \in DOMAIN sections : \E i \in 1..Len(sections[key]) :
        sections[key][i].title.kind = "absent"

RECURSIVE PromptLinesFrom(_, _)
PromptLinesFrom(sections, k) ==
    IF k > Len(PromptOrder) THEN <<>>
    ELSE LET key == PromptOrder[k]
             items == SectionItems(sections, key)
         IN  [i \in 1..Len(items) |-> PromptLine(key, i, items[i])]
             \o PromptLinesFrom(sections, k + 1)

\* _build_prompt(sections): the item lines between the fixed instructions
_build_prompt(sections) == PromptLinesFrom(sections, 1)


(***************************************************************************)
(* The inputs of one invocation of batch_summarize                         *)
(***************************************************************************)
\* most items of a batch, all sections together
MaxTotal == 3
\* most entries a candidate array has beyond the items of its section
MaxExtra == 1
\* most sections of a response whose value is not the well-formed array
MaxOdd == 1

\* the items a batch is made of: a text of four sentences, a text of two, an
\* empty text, an empty title without text, a null text, and no title at all
BaseItems == <<
    [title |-> Str(<<"F","e","d"," ","a","n","d"," ","S","t","o","c","k","s">>),
     raw_text |-> Str(<<"F","e","d"," ","c","u","t"," ","r","a","t","e","s","."," ","S","t","o","c","k","s"," ","r","o","s","e"," ","f","a","s","t","."," ","B","o","n","d","s"," ","f","e","l","l","."," ","G","o","l","d"," ","h","e","l","d",".">>)],
    [title |-> Str(<<"C","h","i","p"," ","n","e","w","s">>),
     raw_text |-> Str(<<"C","h","i","p","s"," ","s","o","l","d"," ","o","u","t","."," ","P","r","i","c","e","s"," ","r","o","s","e"," ","9","%",".">>)],
    [title |-> Str(<<"Q","u","i","e","t"," ","d","a","y">>), raw_text |-> Str(<<>>)],
    [title |-> Str(<<>>), raw_text |-> Absent],
    [title |-> Str(<<"N","u","l","l"," ","t","e","x","t">>), raw_text |-> None],
    [title |-> Absent, raw_text |-> Str(<<"S","h","o","r","t"," ","t","e","x","t",".">>)] >>

\* the rotations of BaseItems a batch starts from
Variants == 0..2

KeyIndex(key) == CHOOSE k \in 1..Len(Keys) : Keys[k] = key

\* the item at place i of a section: the base items in rotation
ItemAt(key, i, variant) ==
    BaseItems[((KeyIndex(key) + i + 2 * variant - 2) % Len(BaseItems)) + 1]

\* the batches: count[key] items under each key; a key without items is
\* either missing or holds the empty list
Counts == {c \in [KeySet -> 0..MaxTotal] :
              c["news"] + c["ai_security_news"] + c["podcasts"] + c["papers"] <= MaxTotal}

Batch(count, variant) ==
    [key \in {k \in KeySet : count[k] > 0 \/ (KeyIndex(k) + variant) % 2 = 0} |->
        [i \in 1..count[key] |-> ItemAt(key, i, variant)]]

Batches == {Batch(count, variant) : count \in Counts, variant \in Variants}

\* summarize() reaches sumy only for a text of more than num_sentences sentences
ReachesSumy(sections) ==
    \E key \in DOMAIN sections : \E i \in 1..Len(sections[key]) :
        Len(SentencesRough(TextArg(sections[key][i].raw_text))) > 3

\* candidate summaries of the backend
GoodPool == <<
    <<"U+1F3AF"," ","R","a","t","e","s"," ","c","u","t"," ","2","%",".","<","b","r",">","U+1F4CA"," ","U","p"," ","9",".">>,
    <<"U+1F4C8"," ","C","h","i","p","s"," ","s","o","l","d"," ","o","u","t",".","<","b","r",">","U+1F4B0"," ","C","o","s","t"," ","f","e","l","l",".">>,
    <<"U+1F9E0"," ","G","o","l","d"," ","h","e","l","d"," ","a","t"," ","$","9",".","<","b","r",">","U+1F4CA"," ","B","o","n","d","s"," ","f","e","l","l"," ","3","%",".">>,
    <<"U+1F4F0"," ","F","e","d"," ","m","e","t"," ","o","n"," ","M","a","y"," ","4",".","<","b","r",">","U+1F50D"," ","V","o","t","e"," ","w","a","s"," ","7"," ","t","o"," ","2",".">> >>
BadCandidate == <<"r","a","t","e","s"," ","w","e","r","e"," ","c","u","t",".","<","b","r",">","m","o","r","e"," ","s","o","o","n",".">>

Good(i) == Str(GoodPool[((i - 1) % Len(GoodPool)) + 1])

\* the arrays a response holds for a section of n items: at most n + MaxExtra
\* entries; entry i is Good(i), except at the places of bad (no place, one
\* place or every place), which hold the same element that is no valid summary
Invalid == {Str(BadCandidate), Str(<<>>), None, Num}
BadPlaces(k) == {{}, 1..k} \cup {{p} : p \in 1..k}
Arrays(n, pool) ==
    {[i \in 1..k |-> IF i \in bad THEN x ELSE Good(i)] :
        <<k, bad, x>> \in {t \in (0..(n + MaxExtra)) \X BadPlaces(n + MaxExtra) \X pool :
                               t[2] \in BadPlaces(t[1])}}


\* the well-formed array for a section of n items
Plain(n) == ListValue([i \in 1..n |-> Good(i)])

\* the values the parsed data holds for a key: json.loads gives any JSON value,
\* _extract_arrays_fallback (lines 167-183) only lists of strings
Values(stage, n) ==
    IF stage = "manual"
    THEN {NoValue} \cup {ListValue(a) : a \in Arrays(n, {Str(BadCandidate), Str(<<>>)})}
    ELSE {NoValue, NullValue, StrValue(<<>>), StrValue(<<"a", "b">>), DictValue(<<>>),
          DictValue(<<Good(1).s>>)}
         \cup {ListValue(a) : a \in Arrays(n, Invalid)}

\* what the backend answers: text that json.loads accepts ("json"), text that
\* it accepts once line 207 has removed trailing commas ("trailing"), and
\* text that it accepts in neither form ("broken"). top tells whether the
\* parsed value is an object; found tells whether the scan of
\* _extract_arrays_fallback finds the array of some key.
Responses ==
    {[form |-> f, top |-> t, found |-> FALSE] : f \in {"json", "trailing"}, t \in {"object", "other"}}
    \cup {[form |-> "broken", top |-> "object", found |-> b] : b \in BOOLEAN}
NoResponse == [form |-> "none", top |-> "none", found |-> FALSE]

\* the ways the call of lines 38-45 fails: the import of line 38, the client
\* of line 40, the request of line 41 (an error or a timeout), and a response
\* whose text is None, of which line 45 takes the length
Failures == {"import", "client", "api_error", "timeout", "no_text"}

\* the summaries the validator meets besides the extractive ones
Candidates == Invalid \cup {Good(i) : i \in 1..Len(GoodPool)}

(***************************************************************************)
(* One invocation of batch_summarize as a state machine                    *)
(***************************************************************************)
VARIABLES
    sections,   \* the argument of batch_summarize
    api_key,    \* whether GEMINI_API_KEY is set (line 22)
    sumy_ok,    \* whether the sumy block of summarizer.py lines 68-77 runs through
    walked,     \* _fallback_summarize(sections) for each order in which the
                \* words of a title can be walked
    extractive, \* _fallback_summarize(sections) in this invocation
    verdicts,   \* _validate_summary over the summaries of this invocation
    parses,     \* the stages of _parse_response on the text of the response
    pc,         \* the place of the invocation
    prompt,     \* the prompt of line 29
    sent,       \* the prompts sent to the backend, one per generate_content call
    response,   \* the text the backend returned
    stage,      \* the stage of _parse_response that produced data
    ki,         \* the key of the loop of line 219 that comes next
    data,       \* the parsed response, the keys the loop has read so far
    odd,        \* the turns so far whose value was not the well-formed array
    result,     \* result of _parse_response, the keys set so far, each with the
                \* summaries that were handed to _validate_summary for it
    out,        \* the value batch_summarize returns
    path        \* the way the invocation ended

vars == <<sections, api_key, sumy_ok, walked, extractive, verdicts, parses, pc, prompt, sent, response,
          stage, ki, data, odd, result, out, path>>

\* what does not change during an invocation
input == <<sections, api_key, sumy_ok, walked, extractive, verdicts, parses>>

NoOut == <<>>
AsLists(summaries) == [key \in DOMAIN summaries |-> Returned("list", summaries[key])]

Init ==
    /\ sections \in Batches
    /\ api_key \in BOOLEAN
    /\ sumy_ok \in (IF ReachesSumy(sections) THEN BOOLEAN ELSE {TRUE})
    /\ walked = [walk \in Walks |-> _fallback_summarize(sections, sumy_ok, walk)]
    /\ extractive \in {walked[walk] : walk \in Walks}
    /\ verdicts = [c \in Candidates \cup
                          {Str(x) : x \in UNION {SeqToSet(extractive[key]) : key \in KeySet}}
                     |-> _validate_summary(c)]
    /\ parses = <<>>
    /\ pc = "start"
    /\ prompt = <<>>
    /\ sent = <<>>
    /\ response = NoResponse
    /\ stage = "none"
    /\ ki = 1
    /\ data = <<>>
    /\ odd = 0
    /\ result = <<>>
    /\ out = NoOut
    /\ path = "none"

\* a faulty variant of NoCredential: the missing key is not looked at
NoCredentialIgnored ==
    /\ pc = "start" /\ ~api_key /\ ~PromptRaises(sections)
    /\ prompt' = _build_prompt(sections)
    /\ pc' = "call"
    /\ UNCHANGED <<input, sent, response, stage, ki, data, odd, result, out, path>>

\* lines 23-26
NoCredential ==
    /\ pc = "start" /\ ~api_key
    /\ out' = AsLists(extractive)
    /\ pc' = "done" /\ path' = "no_credential"
    /\ UNCHANGED <<input, prompt, sent, response, stage, ki, data, odd, result>>

\* lines 28-35
BuildPrompt ==
    /\ pc = "start" /\ api_key /\ ~PromptRaises(sections)
    /\ prompt' = _build_prompt(sections)
    /\ pc' = "call"
    /\ UNCHANGED <<input, sent, response, stage, ki, data, odd, result, out, path>>

\* line 29, outside the try of line 37: the KeyError leaves batch_summarize
BuildPromptRaises ==
    /\ pc = "start" /\ api_key /\ PromptRaises(sections)
    /\ pc' = "raised" /\ path' = "KeyError"
    /\ UNCHANGED <<input, prompt, sent, response, stage, ki, data, odd, result, out>>

\* a faulty variant of BackendFails: empty lists in place of the fallbacks
BackendFailsEmpty ==
    /\ pc = "call"
    /\ \E why \in Failures :
          /\ sent' = IF why \in {"import", "client"} THEN sent ELSE Append(sent, prompt)
          /\ path' = why
    /\ out' = [key \in KeySet |-> Returned("list", <<>>)]
    /\ pc' = "done"
    /\ UNCHANGED <<input, prompt, response, stage, ki, data, odd, result>>

\* lines 38-45 raising, caught at line 51
BackendFails ==
    /\ pc = "call"
    /\ \E why \in Failures :
          /\ sent' = IF why \in {"import", "client"} THEN sent ELSE Append(sent, prompt)
          /\ path' = why
    /\ out' = AsLists(extractive)
    /\ pc' = "done"
    /\ UNCHANGED <<input, prompt, response, stage, ki, data, odd, result>>

\* a faulty variant of GenerateContent: a second request follows the first
GenerateContentTwice ==
    /\ pc = "call"
    /\ sent' = Append(Append(sent, prompt), prompt)
    /\ response' \in Responses
    /\ pc' = "strict"
    /\ UNCHANGED <<input, prompt, stage, ki, data, odd, result, out, path>>

\* lines 38-45 returning a text
GenerateContent ==
    /\ pc = "call"
    /\ sent' = Append(sent, prompt)
    /\ response' \in Responses
    /\ pc' = "strict"
    /\ UNCHANGED <<input, prompt, stage, ki, data, odd, result, out, path>>

\* line 202 returning
ParseStrict ==
    /\ pc = "strict" /\ response.form = "json"
    /\ stage' = "strict"
    /\ pc' = "reconcile"
    /\ UNCHANGED <<input, prompt, sent, response, ki, data, odd, result, out, path>>

\* line 202 raising JSONDecodeError, caught at line 203
StrictFails ==
    /\ pc = "strict" /\ response.form # "json"
    /\ pc' = "repair"
    /\ UNCHANGED <<input, prompt, sent, response, stage, ki, data, odd, result, out, path>>

\* lines 207-211, the repaired text parsing
ParseRepaired ==
    /\ pc = "repair" /\ response.form = "trailing"
    /\ stage' = "repaired"
    /\ pc' = "reconcile"
    /\ UNCHANGED <<input, prompt, sent, response, ki, data, odd, result, out, path>>

\* line 211 raising JSONDecodeError, caught at line 212
RepairFails ==
    /\ pc = "repair" /\ response.form # "trailing"
    /\ pc' = "manual"
    /\ UNCHANGED <<input, prompt, sent, response, stage, ki, data, odd, result, out, path>>

\* line 214 returning a dict
ParseManual ==
    /\ pc = "manual" /\ response.found
    /\ stage' = "manual"
    /\ pc' = "reconcile"
    /\ UNCHANGED <<input, prompt, sent, response, ki, data, odd, result, out, path>>

\* a faulty variant of ParseFails: the JSONDecodeError of line 216 is not caught
ParseFailsRaises ==
    /\ pc = "manual" /\ ~response.found
    /\ pc' = "raised" /\ path' = "JSONDecodeError"
    /\ UNCHANGED <<input, prompt, sent, response, stage, ki, data, odd, result, out>>

\* line 214 returning None: line 216 raises again, line 51 catches
ParseFails ==
    /\ pc = "manual" /\ ~response.found
    /\ out' = AsLists(extractive)
    /\ pc' = "done" /\ path' = "parse_failure"
    /\ UNCHANGED <<input, prompt, sent, response, stage, ki, data, odd, result>>

\* the values data can hold for the key of a turn over n items; the dict that
\* line 214 returns holds at least one key
ValuesFor(n) ==
    {value \in Values(stage, n) :
        /\ value # Plain(n) => odd < MaxOdd
        /\ stage = "manual" /\ odd = Len(Keys) - 1 => value # NoValue}

\* a turn of the loop of lines 219-237 on value, when it raises nothing
Turn(key, value, turn) ==
    /\ turn.ok
    /\ data' = data @@ (key :> value)
    /\ odd' = IF value = Plain(Len(extractive[key])) THEN odd ELSE odd + 1
    /\ result' = result @@ (key :> [shape |-> turn.shape, v |-> turn.v,
                                     checked |-> Checked(value, extractive[key])])

\* a faulty variant of ReconcileSection: the items that a short list lacks are
\* taken off the section while their fallbacks are padded in
ReconcileSectionConsumesItems ==
    /\ pc = "reconcile" /\ ki <= Len(Keys) /\ response.top = "object"
    /\ \E value \in ValuesFor(Len(extractive[Keys[ki]])) :
          /\ Turn(Keys[ki], value, ReconcileKey(value, extractive[Keys[ki]], verdicts))
          /\ sections' = IF /\ Keys[ki] \in DOMAIN sections
                            /\ value.shape \in {"absent", "list"}
                            /\ Len(value.v) < Len(sections[Keys[ki]])
                         THEN [sections EXCEPT ![Keys[ki]] = Take(@, Len(value.v))]
                         ELSE sections
    /\ ki' = ki + 1
    /\ UNCHANGED <<api_key, sumy_ok, walked, extractive, verdicts, parses, pc, prompt, sent,
                   response, stage, out, path>>

\* one turn of the loop of lines 219-237
ReconcileSection ==
    /\ pc = "reconcile" /\ ki <= Len(Keys) /\ response.top = "object"
    /\ \E value \in ValuesFor(Len(extractive[Keys[ki]])) :
          Turn(Keys[ki], value, ReconcileKey(value, extractive[Keys[ki]], verdicts))
    /\ ki' = ki + 1
    /\ UNCHANGED <<input, pc, prompt, sent, response, stage, out, path>>

\* a statement of lines 220-237 raising (data that has no get, a value that
\* has no len, a summary that has no strip), caught at line 51
ReconcileRaises ==
    /\ pc = "reconcile" /\ ki <= Len(Keys)
    /\ \/ response.top # "object" /\ data' = data
       \/ \E value \in ValuesFor(Len(extractive[Keys[ki]])) :
             /\ ~ReconcileKey(value, extractive[Keys[ki]], verdicts).ok
             /\ data' = data @@ (Keys[ki] :> value)
    /\ out' = AsLists(extractive)
    /\ pc' = "done" /\ path' = "reconcile_error"
    /\ UNCHANGED <<input, prompt, sent, response, stage, ki, odd, result>>

\* lines 239 and 46-50
ReturnResult ==
    /\ pc = "reconcile" /\ ki > Len(Keys)
    /\ out' = [key \in DOMAIN result |-> Returned(result[key].shape, result[key].v)]
    /\ pc' = "done" /\ path' = "success"
    /\ UNCHANGED <<input, prompt, sent, response, stage, ki, data, odd, result>>

Next ==
    \/ NoCredential
    \/ BuildPrompt
    \/ BuildPromptRaises
    \/ BackendFails
    \/ GenerateContent
    \/ ParseStrict
    \/ StrictFails
    \/ ParseRepaired
    \/ RepairFails
    \/ ParseManual
    \/ ParseFails
    \/ ReconcileSection
    \/ ReconcileRaises
    \/ ReturnResult

Spec == Init /\ [][Next]_vars

(***************************************************************************)
(* _validate_summary on its own: one call on one candidate                 *)
(***************************************************************************)
\* the checks of _validate_summary, each taken alone on a string: the
\* conditions of lines 248, 262, 267, 271, 279, 285 and 297
CheckFails(text, check) ==
    CASE check = "empty or too short" -> text = <<>> \/ Len(Strip(text)) < 10
      [] check = "too few bullets" ->
            /\ Cardinality({i \in 1..Len(text) : text[i] \in EmojiClass}) < 2
            /\ Len(Split(text, BR)) < 2
      [] check = "starts with lowercase" -> Strip(text) # <<>> /\ Strip(text)[1] \in Lower
      [] check = "starts with URL" ->
            \/ StartsWith(Strip(text), <<"h","t","t","p",":","/","/">>)
            \/ StartsWith(Strip(text), <<"h","t","t","p","s",":","/","/">>)
      [] check = "contains raw text indicator" ->
            \E indicator \in RawIndicators : Contains(text, indicator)
      [] check = "appears cut off" ->
            Strip(text) # <<>> /\ Strip(text)[Len(Strip(text))] \notin TerminalChars
      [] check = "vague filler detected" ->
            \E k \in 1..Len(VaguePatterns) : SearchI(Strip(text), VaguePatterns[k])

\* the candidates handed to the validator: a start, a first bullet, a second
\* bullet or none, and an ending, in every combination
\* the two candidates that the specification gives as examples
MetaReferential ==
    <<"t","h","e"," ","e","p","i","s","o","d","e"," ","d","i","s","c","u","s","s","e","s"," ","A","I"," ","t","r","e","n","d","s"," ","a","n","d"," ","r","a","i","s","e","s"," ","q","u","e","s","t","i","o","n","s">>
TwoBulletFacts ==
    <<"U+1F3AF"," ","O","p","e","n","A","I"," ","r","a","i","s","e","d"," ","$","4","0","B"," ","i","n"," ","M","a","r","c","h"," ","2","0","2","5",".","<","b","r",">","U+1F4CA"," ","V","a","l","u","a","t","i","o","n"," ","h","i","t"," ","$","3","0","0","B",".">>
\* an element of a parsed array: a string, null, a falsy value that is no
\* string, a truthy value that is no string
ValidatorInputs ==
    LET ValidatorStarts ==
            { <<"U+1F3AF"," ">>,
              <<>>,
              <<"r","a","t","e","s"," ">>,
              <<"-"," ","U+1F3AF"," ">>,
              <<"h","t","t","p","s",":","/","/","x",".","c","o"," ">>,
              <<" "," ">> }
        ValidatorBodies ==
            { <<"U","p">>,
              <<"R","a","t","e","s"," ","c","u","t"," ","2","%"," ","t","o","d","a","y">>,
              <<"T","h","i","s"," ","e","p","i","s","o","d","e"," ","r","a","n"," ","l","o","n","g">>,
              <<"G","r","o","w","t","h"," ","i","s"," ","k","e","y"," ","h","e","r","e">>,
              <<"T","h","e"," ","p","a","p","e","r"," ","e","x","p","l","o","r","e","s"," ","r","a","t","e","s">>,
              <<"I","t"," ","m","a","y"," ","p","o","s","e"," ","n","e","w"," ","i","s","s","u","e","s">> }
        ValidatorSeconds ==
            { <<>>,
              <<"<","b","r",">","U+1F4CA"," ","U","p"," ","9">> }
        ValidatorEnds ==
            { <<".">>,
              <<>>,
              <<" ","a","n","d">>,
              <<"U+2026">> }
    IN  {Str(a \o b \o c \o d) : a \in ValidatorStarts, b \in ValidatorBodies,
                                 c \in ValidatorSeconds, d \in ValidatorEnds}
        \cup {Str(MetaReferential), Str(TwoBulletFacts), Str(<<>>), None, Zero, Num}

\* before the call: no batch, no response; verdicts holds what
\* _validate_summary gives for each input
ValidatorInit ==
    /\ sections = <<>>
    /\ api_key = FALSE
    /\ sumy_ok = TRUE
    /\ walked = <<>>
    /\ extractive = [key \in KeySet |-> <<>>]
    /\ verdicts = [c \in ValidatorInputs |-> _validate_summary(c)]
    /\ parses = <<>>
    /\ pc = "validate"
    /\ prompt = <<>>
    /\ sent = <<>>
    /\ response = NoResponse
    /\ stage = "none"
    /\ ki = 1
    /\ data = <<>>
    /\ odd = 0
    /\ result = <<>>
    /\ out = NoOut
    /\ path = "none"

\* issue = _validate_summary(summary), line 232: data holds the summary, result
\* the issue; a call that raises ends in pc = "raised"
Validate ==
    /\ pc = "validate"
    /\ \E summary \in ValidatorInputs :
          /\ data' = [summary |-> summary]
          /\ result' = [issue |-> verdicts[summary]]
          /\ pc' = IF verdicts[summary] = "AttributeError" THEN "raised" ELSE "validated"
    /\ UNCHANGED <<input, prompt, sent, response, stage, ki, odd, out, path>>

ValidatorNext == Validate

ValidatorSpec == ValidatorInit /\ [][ValidatorNext]_vars

(***************************************************************************)
(* llm.py: _parse_response on the text of a response, lines 193-216, and   *)
(* _extract_arrays_fallback                                                *)
(***************************************************************************)
\* the three backquotes of line 195 (the backquote is written by its code point,
\* U+0060, as it cannot stand in a string here)
Fence == <<"U+0060", "U+0060", "U+0060">>

\* lines 196-199 on a text that starts with the fence
Unfenced(cleaned) ==
    LET body == IF Contains(cleaned, <<"\n">>)
                THEN Drop(cleaned, FindFrom(cleaned, <<"\n">>, 1))
                ELSE Drop(cleaned, 3)
    IN  Strip(IF EndsWith(body, Fence) THEN Take(body, Len(body) - 3) ELSE body)

\* cleaned of lines 194-199
StripFence(text) ==
    LET Cleaned(stripped) == IF StartsWith(stripped, Fence) THEN Unfenced(stripped) ELSE stripped
    IN  Cleaned(Strip(text))

\* the match of ,\s*([}\]]) at index j: the index of the bracket, 0 when the
\* pattern does not match there
CommaMatchEnd(s, j) ==
    IF /\ s[j] = ","
       /\ RunEnd(s, j + 1, WS) <= Len(s)
       /\ s[RunEnd(s, j + 1, WS)] \in {"}", "]"}
    THEN RunEnd(s, j + 1, WS) ELSE 0

\* fixed of line 207: re.sub(r',\s*([}\]])', r'\1', cleaned), from index p on
RECURSIVE RemoveTrailingCommas(_, _)
RemoveTrailingCommas(s, p) ==
    LET at == {j \in p..Len(s) : CommaMatchEnd(s, j) # 0}
    IN  IF at = {} THEN SubSeq(s, p, Len(s))
        ELSE SubSeq(s, p, MinOf(at) - 1)
             \o RemoveTrailingCommas(s, CommaMatchEnd(s, MinOf(at)))

KeyChars(key) ==
    CASE key = "news" -> <<"n","e","w","s">>
      [] key = "ai_security_news" ->
            <<"a","i","_","s","e","c","u","r","i","t","y","_","n","e","w","s">>
      [] key = "podcasts" -> <<"p","o","d","c","a","s","t","s">>
      [] key = "papers" -> <<"p","a","p","e","r","s">>

Quoted(chars) == <<"\"">> \o chars \o <<"\"">>

\* the match of "key"\s*:\s*\[ at index p (lines 150-151): the index after the
\* bracket, 0 when the pattern does not match there
KeyMatchEnd(text, key, p) ==
    LET colon == RunEnd(text, p + Len(KeyChars(key)) + 2, WS)
        bracket == RunEnd(text, colon + 1, WS)
    IN  IF /\ MatchAt(text, Quoted(KeyChars(key)), p)
           /\ colon <= Len(text) /\ text[colon] = ":"
           /\ bracket <= Len(text) /\ text[bracket] = "["
        THEN bracket + 1 ELSE 0

\* start of line 155, counted from 1: the end of the leftmost match, 0 when
\* re.search finds none
ArrayStart(text, key) ==
    LET at == {p \in 1..Len(text) : KeyMatchEnd(text, key, p) # 0}
    IN  IF at = {} THEN 0 ELSE KeyMatchEnd(text, key, MinOf(at))

\* array_content of line 164: up to the bracket at which the depth reaches 0;
\* when the loop of line 158 ends at the end of the text, text[start:i - 1]
\* leaves out the last character
ArrayContent(text, start) ==
    LET \* depth of line 156 after the characters start..j
        DepthAfter(j) == 1 + Cardinality({h \in start..j : text[h] = "["})
                           - Cardinality({h \in start..j : text[h] = "]"})
        closing == {j \in start..Len(text) : DepthAfter(j) = 0}
    IN  IF closing # {} THEN SubSeq(text, start, MinOf(closing) - 1)
        ELSE IF start > Len(text) - 1 THEN <<>>
        ELSE SubSeq(text, start, Len(text) - 1)

\* the quotes at which line 171 toggles in_str: those not preceded by a backslash
Toggles(content) ==
    {j \in 1..Len(content) : content[j] = "\"" /\ (j = 1 \/ content[j - 1] # "\\")}

\* items of lines 167-182 from index p on, in_str being false at p: the text
\* between an opening and a closing toggle, and what follows an opening toggle
\* that is never closed, when that is not empty
RECURSIVE ItemsFrom(_, _)
ItemsFrom(content, p) ==
    LET opening == {j \in Toggles(content) : j >= p}
        closing == {j \in Toggles(content) : j > MinOf(opening)}
    IN  IF opening = {} THEN <<>>
        ELSE IF closing = {}
             THEN IF MinOf(opening) < Len(content)
                  THEN <<SubSeq(content, MinOf(opening) + 1, Len(content))>> ELSE <<>>
             ELSE <<SubSeq(content, MinOf(opening) + 1, MinOf(closing) - 1)>>
                  \o ItemsFrom(content, MinOf(closing) + 1)

\* a faulty variant of _extract_arrays_fallback: the dict counts only when one
\* of its arrays holds an item
_extract_arrays_fallback_needs_items(text) ==
    LET found == {key \in KeySet : ArrayStart(text, key) # 0}
    IN  [ok |-> \E key \in found : ItemsFrom(ArrayContent(text, ArrayStart(text, key)), 1) # <<>>,
         v |-> [key \in found |->
                  ItemsFrom(ArrayContent(text, ArrayStart(text, key)), 1)]]

\* _extract_arrays_fallback(text, sections): the dict of line 187, or None
\* (ok false) when no key was found
_extract_arrays_fallback(text) ==
    LET found == {key \in KeySet : ArrayStart(text, key) # 0}
    IN  [ok |-> found # {},
         v |-> [key \in found |->
                  ItemsFrom(ArrayContent(text, ArrayStart(text, key)), 1)]]

(***************************************************************************)
(* json.loads (llm.py lines 202 and 211) on the texts the model gives it:  *)
(* an object whose values are arrays of strings, nulls and whole numbers.  *)
(* A text outside this grammar raises JSONDecodeError here.                *)
(***************************************************************************)
JsonFail == [ok |-> FALSE, v |-> <<>>, next |-> 0]

\* json.loads(s): the dict, the value of a name being that of its last member;
\* only the names that are section keys are kept, as the loop of line 219
\* reads no other
JsonLoads(s) ==
    LET \* the backslashes that stand right before index j of a string opened at p
        BackslashesBefore(t, p, j) == (j - 1) - MaxOf({h \in p..(j - 1) : t[h] # "\\"})
        \* the quotes that close the string opened at p: a quote after an even
        \* number of backslashes
        Closing(p) == {j \in (p + 1)..Len(s) :
                          s[j] = "\"" /\ BackslashesBefore(s, p, j) % 2 = 0}
        \* the characters between the quotes are a JSON string: no control
        \* character, and a backslash that opens an escape is followed by one
        \* of " \ / n
        ValidEscapes(chars) ==
            /\ \A j \in 1..Len(chars) : chars[j] \notin {"\n", "\t", "\r"}
            /\ \A j \in 1..Len(chars) :
                  (chars[j] = "\\" /\ BackslashesBefore(<<"\"">> \o chars, 1, j + 1) % 2 = 0)
                     => (j < Len(chars) /\ chars[j + 1] \in {"\"", "\\", "/", "n"})
        \* the string a JSON string stands for, from index p on
        RECURSIVE Unescape(_, _)
        Unescape(chars, p) ==
            IF \A j \in p..Len(chars) : chars[j] # "\\" THEN SubSeq(chars, p, Len(chars))
            ELSE SubSeq(chars, p, FindFrom(chars, <<"\\">>, p) - 1)
                 \o <<IF chars[FindFrom(chars, <<"\\">>, p) + 1] = "n" THEN "\n"
                      ELSE chars[FindFrom(chars, <<"\\">>, p) + 1]>>
                 \o Unescape(chars, FindFrom(chars, <<"\\">>, p) + 2)
        String(chars, close) ==
            IF ValidEscapes(chars)
            THEN [ok |-> TRUE, v |-> Str(Unescape(chars, 1)), next |-> close + 1]
            ELSE JsonFail
        \* a whole number with no leading zero, the digits from p up to end
        Number(p, end) ==
            IF s[p] = "0" /\ end > p + 1 THEN JsonFail
            ELSE [ok |-> TRUE, v |-> IF s[p] = "0" THEN Zero ELSE Num, next |-> end]
        \* a string, null or number at index p: its value and the index after it
        Element(p) ==
            IF p > Len(s) THEN JsonFail
            ELSE IF MatchAt(s, <<"n", "u", "l", "l">>, p)
                 THEN [ok |-> TRUE, v |-> None, next |-> p + 4]
            ELSE IF s[p] = "\"" /\ Closing(p) # {}
                 THEN String(SubSeq(s, p + 1, MinOf(Closing(p)) - 1), MinOf(Closing(p)))
            ELSE IF s[p] \in Digit THEN Number(p, RunEnd(s, p, Digit))
            ELSE JsonFail
        Prepend(x, rest) ==
            IF rest.ok THEN [ok |-> TRUE, v |-> <<x>> \o rest.v, next |-> rest.next]
            ELSE JsonFail
        \* Elements and Members read an array and an object from index p on,
        \* where an element or a member is due; Sequence reads what follows
        \* the element or member x, q being the index of the next character
        \* that is no white space
        RECURSIVE Elements(_), Members(_), Sequence(_, _, _)
        Sequence(x, q, closer) ==
            IF q > Len(s) THEN JsonFail
            ELSE IF s[q] = closer THEN [ok |-> TRUE, v |-> <<x>>, next |-> q + 1]
            ELSE IF s[q] # "," THEN JsonFail
            ELSE IF closer = "]" THEN Prepend(x, Elements(q + 1))
            ELSE Prepend(x, Members(q + 1))
        AfterElement(e) ==
            IF e.ok THEN Sequence(e.v, RunEnd(s, e.next, WS), "]") ELSE JsonFail
        Elements(p) == AfterElement(Element(RunEnd(s, p, WS)))
        ArrayAt(p, q) ==
            IF p > Len(s) \/ s[p] # "[" THEN JsonFail
            ELSE IF q <= Len(s) /\ s[q] = "]" THEN [ok |-> TRUE, v |-> <<>>, next |-> q + 1]
            ELSE Elements(p + 1)
        AfterArray(name, array) ==
            IF array.ok
            THEN Sequence([name |-> name, elems |-> array.v], RunEnd(s, array.next, WS), "}")
            ELSE JsonFail
        AfterColon(name, colon) ==
            IF colon <= Len(s) /\ s[colon] = ":"
            THEN AfterArray(name, ArrayAt(RunEnd(s, colon + 1, WS),
                                         RunEnd(s, RunEnd(s, colon + 1, WS) + 1, WS)))
            ELSE JsonFail
        AfterName(name) ==
            IF name.ok /\ name.v.kind = "str" THEN AfterColon(name.v.s, RunEnd(s, name.next, WS))
            ELSE JsonFail
        Members(p) == AfterName(Element(RunEnd(s, p, WS)))
        ObjectAt(p, q) ==
            IF p > Len(s) \/ s[p] # "{" THEN JsonFail
            ELSE IF q <= Len(s) /\ s[q] = "}" THEN [ok |-> TRUE, v |-> <<>>, next |-> q + 1]
            ELSE Members(p + 1)
        \* nothing but white space follows the object
        Whole(members) ==
            IF members.ok /\ RunEnd(s, members.next, WS) > Len(s) THEN members ELSE JsonFail
        LastNamed(members, key) ==
            members[MaxOf({m \in 1..Len(members) : members[m].name = KeyChars(key)})].elems
        AsDict(members) ==
            [ok |-> members.ok,
             v |-> [key \in {k \in KeySet : \E m \in 1..Len(members.v) :
                                               members.v[m].name = KeyChars(k)} |->
                      LastNamed(members.v, key)]]
    IN  AsDict(Whole(ObjectAt(RunEnd(s, 1, WS), RunEnd(s, RunEnd(s, 1, WS) + 1, WS))))

(***************************************************************************)
(* One invocation of _parse_response on the text of a response             *)
(***************************************************************************)
\* the text of a JSON string: what json.dumps writes for it
JsonEscape(chars) ==
    Replace(Replace(Replace(chars, <<"\\">>, <<"\\", "\\">>), <<"\"">>, <<"\\", "\"">>),
            <<"\n">>, <<"\\", "n">>)

\* the text of an object; comma tells whether a comma follows the last
\* element of an array and the last member
Render(members, comma) ==
    LET RenderElement(x) ==
            CASE x = None -> <<"n", "u", "l", "l">>
              [] x = Zero -> <<"0">>
              [] x = Num -> <<"7">>
              [] OTHER -> Quoted(JsonEscape(x.s))
        RenderArray(elems) ==
            <<"[">> \o Join([i \in 1..Len(elems) |-> RenderElement(elems[i])], <<",", " ">>)
                    \o (IF comma /\ elems # <<>> THEN <<",">> ELSE <<>>) \o <<"]">>
        RenderMember(member) ==
            Quoted(KeyChars(member.key)) \o <<":", " ">> \o RenderArray(member.elems)
    IN  <<"{">> \o Join([m \in 1..Len(members) |-> RenderMember(members[m])], <<",", " ">>)
                \o (IF comma /\ members # <<>> THEN <<",", "\n">> ELSE <<>>) \o <<"}">>

\* summaries that hold a closing bracket, quotes, a backslash at their end
Interval == Str(<<"U+1F9E0"," ","L","o","s","s"," ","i","n"," ","(","0",","," ","1","]"," ","f","e","l","l"," ","3","%",".","<","b","r",">","U+1F4CA"," ","U","p"," ","9",".">>)
Quoting == Str(<<"U+1F3AF"," ","C","E","O"," ","s","a","i","d"," ","\"","n","o","\""," ","t","o"," ","$","9",".","<","b","r",">","U+1F4CA"," ","U","p"," ","9",".">>)
Backslashed == Str(<<"U+1F3AF"," ","F","i","l","e","s"," ","m","o","v","e","d"," ","t","o"," ","C",":","\\">>)

\* the objects of a response: no member, the news, the news and the papers
Objects ==
    LET FirstArrays == {<<>>, <<Good(1)>>, <<Good(1), Good(2)>>, <<Good(1), Good(2), Good(3)>>,
                        <<Interval>>, <<Interval, Good(2)>>, <<Quoting>>, <<None, Num>>,
                        <<Backslashed, Good(2)>>}
        SecondArrays == {<<>>, <<Good(4)>>}
    IN  {<<>>} \cup {<<[key |-> "news", elems |-> a]>> : a \in FirstArrays}
        \cup {<<[key |-> "news", elems |-> a], [key |-> "papers", elems |-> b]>> :
                 a \in FirstArrays, b \in SecondArrays}

\* what the backend does to the text of the object: nothing, a comma after
\* each last element, the final brace left out, the final bracket and brace
\* left out, the text cut inside its last string
Damaged(members, damage) ==
    CASE damage = "none" -> Render(members, FALSE)
      [] damage = "trailing" -> Render(members, TRUE)
      [] damage = "open" -> Take(Render(members, FALSE), Len(Render(members, FALSE)) - 1)
      [] damage = "cut" -> Take(Render(members, FALSE), Len(Render(members, FALSE)) - 2)
      [] damage = "midway" -> Take(Render(members, FALSE), Len(Render(members, FALSE)) - 6)

\* the markdown code block the backend may put around the text
Fenced(text, fence) ==
    CASE fence = "none" -> <<" ">> \o text \o <<"\n">>
      [] fence = "json" -> Fence \o <<"j", "s", "o", "n", "\n">> \o text \o <<"\n">> \o Fence
      [] fence = "bare" -> Fence \o text \o Fence

\* the responses: the object the backend writes, what it does to the text,
\* and the text that _parse_response receives; a fence goes around whole and
\* open texts, and one response is prose without an object
ParserResponses ==
    LET Damages == {"none", "trailing", "open", "cut", "midway"}
        Fences == {"none", "json", "bare"}
        Unfencing == {"none", "open"}
        Apology == <<"S","o","r","r","y",","," ","n","o"," ","d","a","t","a",".">>
    IN  {[members |-> t[1], damage |-> t[2], fence |-> t[3],
          text |-> Fenced(Damaged(t[1], t[2]), t[3]), cleaned |-> <<>>, fixed |-> <<>>] :
            t \in {u \in Objects \X Damages \X Fences : u[3] # "none" => u[2] \in Unfencing}}
        \cup {[members |-> <<>>, damage |-> "prose", fence |-> "none", text |-> Apology,
               cleaned |-> <<>>, fixed |-> <<>>]}

\* the batches whose prompt is built: MaxTotal items, all of them news but
\* one at most
ParserBatches ==
    {b \in {Batch(count, 0) : count \in {c \in Counts :
                /\ c["ai_security_news"] = 0 /\ c["podcasts"] + c["papers"] <= 1
                /\ c["news"] + c["podcasts"] + c["papers"] = MaxTotal}} :
        ~PromptRaises(b)}

\* lines 194-214 on a text: the texts and what each parse gives for them
StagesOf(text) ==
    LET Stages(cleaned, fixed) ==
            [cleaned |-> cleaned, fixed |-> fixed,
             strict |-> JsonLoads(cleaned),
             repaired |-> JsonLoads(fixed),
             manual |-> _extract_arrays_fallback(fixed)]
        Repaired(cleaned) == Stages(cleaned, RemoveTrailingCommas(cleaned, 1))
    IN  Repaired(StripFence(text))

\* the elements the three parses give
ElementsOf(stages) ==
    UNION {SeqToSet(stages.strict.v[key]) : key \in DOMAIN stages.strict.v}
    \cup UNION {SeqToSet(stages.repaired.v[key]) : key \in DOMAIN stages.repaired.v}
    \cup UNION {{Str(x) : x \in SeqToSet(stages.manual.v[key])} : key \in DOMAIN stages.manual.v}

ParserInit ==
    /\ sections \in ParserBatches
    /\ api_key = TRUE
    /\ sumy_ok = TRUE
    /\ walked = [walk \in {"forward"} |-> _fallback_summarize(sections, sumy_ok, walk)]
    /\ extractive = walked["forward"]
    /\ response \in ParserResponses
    /\ parses = StagesOf(response.text)
    /\ verdicts = [c \in ElementsOf(parses) \cup
                          {Str(x) : x \in UNION {SeqToSet(extractive[key]) : key \in KeySet}}
                     |-> _validate_summary(c)]
    /\ pc = "parse"
    /\ prompt = <<>>
    /\ sent = <<>>
    /\ stage = "none"
    /\ ki = 1
    /\ data = <<>>
    /\ odd = 0
    /\ result = <<>>
    /\ out = NoOut
    /\ path = "none"

\* the dict of a parse in the form the loop of line 219 reads it
AsValues(parsed) == [key \in DOMAIN parsed |-> ListValue(parsed[key])]

\* lines 194-199
CleanText ==
    /\ pc = "parse"
    /\ response' = [response EXCEPT !.cleaned = parses.cleaned]
    /\ pc' = "strict"
    /\ UNCHANGED <<input, prompt, sent, stage, ki, data, odd, result, out, path>>

\* line 202 returning
LoadsCleaned ==
    /\ pc = "strict" /\ parses.strict.ok
    /\ data' = AsValues(parses.strict.v)
    /\ stage' = "strict"
    /\ pc' = "reconcile"
    /\ UNCHANGED <<input, prompt, sent, response, ki, odd, result, out, path>>

\* a faulty variant of LoadsCleanedFails: the repair of line 207 runs whatever
\* line 202 did
LoadsCleanedFailsAlways ==
    /\ pc = "strict"
    /\ response' = [response EXCEPT !.fixed = parses.fixed]
    /\ pc' = "repair"
    /\ UNCHANGED <<input, prompt, sent, stage, ki, data, odd, result, out, path>>

\* line 202 raising JSONDecodeError: lines 203-207
LoadsCleanedFails ==
    /\ pc = "strict" /\ ~parses.strict.ok
    /\ response' = [response EXCEPT !.fixed = parses.fixed]
    /\ pc' = "repair"
    /\ UNCHANGED <<input, prompt, sent, stage, ki, data, odd, result, out, path>>

\* line 211 returning
LoadsFixed ==
    /\ pc = "repair" /\ parses.repaired.ok
    /\ data' = AsValues(parses.repaired.v)
    /\ stage' = "repaired"
    /\ pc' = "reconcile"
    /\ UNCHANGED <<input, prompt, sent, response, ki, odd, result, out, path>>

\* line 211 raising JSONDecodeError, caught at line 212
LoadsFixedFails ==
    /\ pc = "repair" /\ ~parses.repaired.ok
    /\ pc' = "manual"
    /\ UNCHANGED <<input, prompt, sent, response, stage, ki, data, odd, result, out, path>>

\* line 214 returning a dict
ExtractArrays ==
    /\ pc = "manual" /\ parses.manual.ok
    /\ data' = [key \in DOMAIN parses.manual.v |->
                  ListValue([i \in 1..Len(parses.manual.v[key]) |-> Str(parses.manual.v[key][i])])]
    /\ stage' = "manual"
    /\ pc' = "reconcile"
    /\ UNCHANGED <<input, prompt, sent, response, ki, odd, result, out, path>>

\* line 214 returning None: line 216 raises again, line 51 of batch_summarize
\* catches
ExtractArraysFails ==
    /\ pc = "manual" /\ ~parses.manual.ok
    /\ out' = AsLists(extractive)
    /\ pc' = "done" /\ path' = "parse_failure"
    /\ UNCHANGED <<input, prompt, sent, response, stage, ki, data, odd, result>>

\* data.get(key, []) of line 220
GetValue(parsed, key) == IF key \in DOMAIN parsed THEN parsed[key] ELSE NoValue

\* one turn of the loop of lines 219-237 on the parsed data
ReconcileParsed ==
    /\ pc = "reconcile" /\ ki <= Len(Keys)
    /\ ReconcileKey(GetValue(data, Keys[ki]), extractive[Keys[ki]], verdicts).ok
    /\ result' = result @@ (Keys[ki] :>
          [shape |-> ReconcileKey(GetValue(data, Keys[ki]), extractive[Keys[ki]], verdicts).shape,
           v |-> ReconcileKey(GetValue(data, Keys[ki]), extractive[Keys[ki]], verdicts).v,
           checked |-> Checked(GetValue(data, Keys[ki]), extractive[Keys[ki]])])
    /\ ki' = ki + 1
    /\ UNCHANGED <<input, pc, prompt, sent, response, stage, data, odd, out, path>>

\* a turn raising (a null summary has no strip), caught at line 51
ReconcileParsedRaises ==
    /\ pc = "reconcile" /\ ki <= Len(Keys)
    /\ ~ReconcileKey(GetValue(data, Keys[ki]), extractive[Keys[ki]], verdicts).ok
    /\ out' = AsLists(extractive)
    /\ pc' = "done" /\ path' = "reconcile_error"
    /\ UNCHANGED <<input, prompt, sent, response, stage, ki, data, odd, result>>

ParserNext ==
    \/ CleanText
    \/ LoadsCleaned
    \/ LoadsCleanedFails
    \/ LoadsFixed
    \/ LoadsFixedFails
    \/ ExtractArrays
    \/ ExtractArraysFails
    \/ ReconcileParsed
    \/ ReconcileParsedRaises
    \/ ReturnResult

ParserSpec == ParserInit /\ [][ParserNext]_vars

(***************************************************************************)
(* One call of summarize                                                   *)
(***************************************************************************)
\* the arguments of a call: a text (a string or None) of no, one, two, four or
\* five sentences, the number of sentences, a title of no, one or two title
\* words; and what the environment does: whether the ranking step runs, and
\* the order in which the title words are walked
SummarizerInputs ==
    LET Texts ==
            {None, Str(<<>>), Str(<<" ", "\n", " ">>),
             Str(<<"S","h","o","r","t"," ","t","e","x","t",".">>),
             Str(<<" ","C","h","i","p","s"," ","s","o","l","d"," ","o","u","t","."," ","P","r","i","c","e","s"," ","r","o","s","e"," ","9","%","."," ">>),
             Str(<<"F","e","d"," ","c","u","t"," ","r","a","t","e","s","."," ","S","t","o","c","k","s"," ","r","o","s","e"," ","f","a","s","t","."," ","B","o","n","d","s"," ","f","e","l","l","."," ","G","o","l","d"," ","h","e","l","d",".">>),
             Str(<<"U","p"," ","9","%","!"," ","W","h","y","?"," ","F","e","d"," ","c","u","t","."," ","G","o","l","d"," ","h","e","l","d","."," ","D","o","n","e",".">>),
             Str(<<".",".","."," ",".",".",".","."," ","?","!">>)}
        Titles ==
            {<<>>, <<"C","h","i","p"," ","n","e","w","s">>,
             <<"F","e","d"," ","a","n","d"," ","S","t","o","c","k","s">>}
    IN  [text : Texts, num_sentences : {2, 3}, title : Titles,
         sumy_runs : BOOLEAN, walk : Walks]

\* before the call: no batch, no response; extractive holds what summarize
\* gives for each input
SummarizerInit ==
    /\ sections = <<>>
    /\ api_key = FALSE
    /\ sumy_ok = TRUE
    /\ walked = <<>>
    /\ extractive = [c \in SummarizerInputs |->
                       summarize(TextArg(c.text), c.num_sentences, c.title, c.sumy_runs, c.walk)]
    /\ verdicts = <<>>
    /\ parses = <<>>
    /\ pc = "summarize"
    /\ prompt = <<>>
    /\ sent = <<>>
    /\ response = NoResponse
    /\ stage = "none"
    /\ ki = 1
    /\ data = <<>>
    /\ odd = 0
    /\ result = <<>>
    /\ out = NoOut
    /\ path = "none"

\* summarize(text, num_sentences, title), lines 55-82: data holds the
\* arguments and what the environment does, result the string returned
Summarize ==
    /\ pc = "summarize"
    /\ \E c \in DOMAIN extractive :
          /\ data' = c
          /\ result' = [summary |-> extractive[c]]
    /\ pc' = "summarized"
    /\ UNCHANGED <<input, prompt, sent, response, stage, ki, odd, out, path>>

SummarizerSpec == SummarizerInit /\ [][Summarize]_vars

(***************************************************************************)
(* _build_prompt on texts of the lengths at which it cuts                  *)
(***************************************************************************)
\* n characters of chars said over and over
Cycle(chars, n) == [i \in 1..n |-> chars[((i - 1) % Len(chars)) + 1]]

\* the raw texts: none, texts on either side of the lengths 50, 100, 200, 1000,
\* 1500, 3000 and 8000 of lines 89-119, a transcript of four sponsor reads of
\* 312 characters each, and a transcript that opens with a line of one
PromptTexts ==
    LET Sentence == <<"R","a","t","e","s"," ","r","o","s","e"," ","2","%"," ","i","n"," ","M","a","y","."," ">>
        Read == <<"S","p","o","n","s","o","r","e","d"," ","b","y"," ","A","c","m","e","."," ">>
        Line == <<"B","r","o","u","g","h","t"," ","t","o"," ","y","o","u"," ","b","y"," ","A","c","m","e",".","\n">>
    IN  {Absent, None, Str(<<>>)}
        \cup {Str(Cycle(Sentence, n)) :
                 n \in {49, 50, 99, 100, 199, 200, 1000, 1001, 1501, 3001, 8300}}
        \cup {Str(Cycle(Read \o Cycle(Sentence, 293), 1248)),
              Str(Line \o Cycle(Sentence, 1200))}

\* the batches: one item under one key, with a title or without
PromptBatches ==
    {[k \in {key} |-> <<[title |-> title, raw_text |-> raw_text]>>] :
        key \in KeySet, title \in {Str(<<"F", "e", "d">>), Absent}, raw_text \in PromptTexts}

PromptInit ==
    /\ sections \in PromptBatches
    /\ api_key = TRUE
    /\ sumy_ok = TRUE
    /\ walked = <<>>
    /\ extractive = <<>>
    /\ verdicts = <<>>
    /\ parses = <<>>
    /\ pc = "start"
    /\ prompt = <<>>
    /\ sent = <<>>
    /\ response = NoResponse
    /\ stage = "none"
    /\ ki = 1
    /\ data = <<>>
    /\ odd = 0
    /\ result = <<>>
    /\ out = NoOut
    /\ path = "none"

PromptNext ==
    \/ BuildPrompt
    \/ BuildPromptRaises

PromptSpec == PromptInit /\ [][PromptNext]_vars

(***************************************************************************)
(* One call of _fallback_summarize                                         *)
(***************************************************************************)
\* before the call: data holds, for each item of each section, the summary
\* that line 323 gets from summarize, extractive the lists that
\* _fallback_section makes of them
FallbackInit ==
    /\ sections \in Batches
    /\ api_key = FALSE
    /\ sumy_ok \in (IF ReachesSumy(sections) THEN BOOLEAN ELSE {TRUE})
    /\ walked = [walk \in Walks |-> _fallback_summarize(sections, sumy_ok, walk)]
    /\ \E walk \in Walks :
          /\ extractive = walked[walk]
          /\ data = [key \in KeySet |->
                       [i \in 1..Len(SectionItems(sections, key)) |->
                           summarize(TextArg(Get(SectionItems(sections, key)[i].raw_text, Str(<<>>))), 3,
                                     TextArg(Get(SectionItems(sections, key)[i].title, Str(<<>>))),
                                     sumy_ok, walk)]]
    /\ verdicts = <<>>
    /\ parses = <<>>
    /\ pc = "fallback"
    /\ prompt = <<>>
    /\ sent = <<>>
    /\ response = NoResponse
    /\ stage = "none"
    /\ ki = 1
    /\ odd = 0
    /\ result = <<>>
    /\ out = NoOut
    /\ path = "none"

\* _fallback_section(sections.get(key, []), key) for the next key of line 308
FallbackSection ==
    /\ pc = "fallback" /\ ki <= Len(Keys)
    /\ result' = result @@ (Keys[ki] :> extractive[Keys[ki]])
    /\ ki' = ki + 1
    /\ UNCHANGED <<input, pc, prompt, sent, response, stage, data, odd, out, path>>

\* the dict of lines 306-309 is returned
FallbackReturn ==
    /\ pc = "fallback" /\ ki > Len(Keys)
    /\ out' = AsLists(result)
    /\ pc' = "done" /\ path' = "fallback"
    /\ UNCHANGED <<input, prompt, sent, response, stage, ki, data, odd, result>>

FallbackSpec == FallbackInit /\ [][FallbackSection \/ FallbackReturn]_vars

(***************************************************************************)
(* Properties of batch_summarize                                           *)
(***************************************************************************)
\* batch_summarize has returned the reconciled result of a parsed response
Parsed == pc = "done" /\ path = "success"

\* the parsed response holds an array under key; a key it does not hold reads
\* as the empty array (line 221)
IsArray(key) == key \in DOMAIN data /\ data[key].shape \in {"absent", "list"}

\* the elements of the array under key are strings or nulls
StringsOrNulls(key) ==
    IsArray(key) /\ \A i \in 1..Len(data[key].v) : data[key].v[i].kind \in {"str", "none"}

\* the output is _fallback_summarize(sections)
AllExtractive ==
    /\ DOMAIN out = KeySet
    /\ \A key \in KeySet : out[key].shape = "list" /\ out[key].v = extractive[key]

\* output entry i of key is the candidate of the response at index i, and the
\* validator accepts that candidate
KeepsCandidate(key, i) ==
    /\ i <= Len(data[key].v)
    /\ data[key].v[i].kind = "str"
    /\ verdicts[data[key].v[i]] = "valid"
    /\ out[key].v[i] = data[key].v[i].s

\* output entry i of key is the extractive fallback of input item i of key
HoldsFallback(key, i) ==
    i <= Len(extractive[key]) /\ out[key].v[i] = extractive[key][i]

\* C1: whenever batch_summarize has returned (without a credential, after a
\* backend failure, after a terminal parse failure, after a successful parse),
\* the output holds every section key of the input batch, and under it as many
\* entries as the section has items.
C1_LengthInvariant ==
    pc = "done" =>
        \A key \in DOMAIN sections :
            key \in DOMAIN out /\ Len(out[key].v) = Len(sections[key])

\* a parsed response whose array for a section with items was too long
C1_Truncated ==
    /\ Parsed
    /\ \E key \in DOMAIN sections :
          /\ IsArray(key)
          /\ 0 < Len(sections[key]) /\ Len(sections[key]) < Len(data[key].v)
          /\ Len(out[key].v) = Len(sections[key])

\* C2: after a successfully parsed response, every entry i of every section
\* that the response gave as an array is either the candidate at index i, which
\* the validator accepts, or the extractive fallback of input item i: no entry
\* comes from another index.
C2_PositionalAlignment ==
    Parsed =>
        \A key \in KeySet : IsArray(key) =>
            \A i \in 1..Len(out[key].v) : KeepsCandidate(key, i) \/ HoldsFallback(key, i)

\* a bad candidate replaced in front of a candidate that is kept
C2_ReplacedBeforeKept ==
    /\ Parsed
    /\ \E key \in KeySet : \E i, j \in 1..Len(out[key].v) :
          /\ IsArray(key) /\ i < j
          /\ i <= Len(data[key].v) /\ verdicts[data[key].v[i]] # "valid"
          /\ HoldsFallback(key, i) /\ ~HoldsFallback(key, j) /\ KeepsCandidate(key, j)

\* C3: without a credential no request goes to the backend, and batch_summarize
\* returns the extractive fallback of every section.
C3_NoCredentialNoCall ==
    ~api_key =>
        /\ sent = <<>> /\ response = NoResponse
        /\ pc \in {"start", "done"}
        /\ pc = "done" => path = "no_credential" /\ AllExtractive

\* an invocation without credential that returned for a batch with items
C3_ReturnedWithoutCall ==
    /\ ~api_key /\ pc = "done" /\ sent = <<>>
    /\ \E key \in DOMAIN sections : Len(sections[key]) > 0 /\ out[key].v = extractive[key]

\* the request carries the whole batch: a numbered line for every item of every
\* section, with the title of the item
CarriesBatch(request) ==
    /\ Len(request) = Len(SectionItems(sections, "news")) + Len(SectionItems(sections, "podcasts"))
                      + Len(SectionItems(sections, "papers"))
                      + Len(SectionItems(sections, "ai_security_news"))
    /\ \A key \in DOMAIN sections : \A i \in 1..Len(sections[key]) :
          \E l \in 1..Len(request) :
              /\ request[l].key = key /\ request[l].n = i
              /\ request[l].title = Format(sections[key][i].title)

\* the import of line 38 and the client of line 40 have gone through
ClientBuilt ==
    \/ pc \in {"strict", "repair", "manual", "reconcile"}
    \/ pc = "done" /\ path \in {"api_error", "timeout", "no_text", "parse_failure",
                                "reconcile_error", "success"}

\* C4 as the specification states it: with a credential, an invocation that
\* has returned has issued exactly one request to the backend.
C4_ExactlyOneCall ==
    (api_key /\ pc = "done") => Len(sent) = 1

\* C4, amended: an invocation issues at most one request, so none per item or
\* per section and no second one after a failure, a timeout or a response that
\* does not parse; it has issued exactly one, carrying the whole batch, once the
\* client was built, and none when the import or the client fails or the
\* prompt was never built.
C4_AtMostOneCall ==
    /\ Len(sent) <= 1
    /\ \A i \in 1..Len(sent) : CarriesBatch(sent[i])
    /\ ClientBuilt => Len(sent) = 1
    /\ (pc \in {"done", "raised"} /\ ~ClientBuilt) => sent = <<>>

\* a response that no stage parses, after the one request for a batch of
\* several items
C4_OneCallThenFallback ==
    /\ api_key /\ pc = "done" /\ path = "parse_failure"
    /\ Len(sent) = 1 /\ Len(sent[1]) >= 2

\* C5: when the backend call fails (the import or the client raises, the
\* request raises or times out, the response has no text), batch_summarize
\* returns the extractive fallback of every section, and nothing of a response
\* was parsed or reconciled.
C5_BackendFailureAllExtractive ==
    path \in Failures =>
        /\ pc = "done"
        /\ AllExtractive
        /\ data = <<>> /\ result = <<>>

\* a request that timed out for a batch with items
C5_TimedOut ==
    /\ pc = "done" /\ path = "timeout" /\ Len(sent) = 1
    /\ \E key \in DOMAIN sections : Len(sections[key]) > 0 /\ out[key].v = extractive[key]

\* C6: when the strict parse, the repair and the manual recovery have all
\* failed, the next step of batch_summarize returns the extractive fallback of
\* every section, as it does when the backend fails, and raises nothing.
C6_ParseFailureAllExtractive ==
    [][(pc = "manual" /\ ~response.found) =>
          (pc' = "done" /\ path' = "parse_failure"
           /\ out' = AsLists(extractive) /\ sent' = sent)]_vars

\* a terminal parse failure that ended in the fallbacks of a batch with items
C6_ParseFailed ==
    /\ pc = "done" /\ path = "parse_failure" /\ response.form = "broken"
    /\ AllExtractive
    /\ \E key \in DOMAIN sections : Len(sections[key]) > 0

\* C7 as the specification states it: batch_summarize never raises.
C7_NeverRaises ==
    pc # "raised"

\* C8: every string of every section of the output is non-empty, whichever
\* path produced it, also for an item without text whose title is empty.
C8_NonEmptyStrings ==
    pc = "done" =>
        \A key \in DOMAIN out : out[key].shape \in {"list", "dict"} =>
            \A i \in 1..Len(out[key].v) : Len(out[key].v[i]) > 0

\* the output entry of an item with an empty title and no text
C8_EmptyTitleNoText ==
    /\ pc = "done"
    /\ \E key \in DOMAIN sections : \E i \in 1..Len(sections[key]) :
          /\ sections[key][i].title = Str(<<>>)
          /\ sections[key][i].raw_text.kind # "str"
          /\ out[key].shape = "list"
          /\ out[key].v[i] = Emojis(key)[1] \o <<" ">>

\* C9: in a parsed response whose arrays hold strings and nulls, a candidate
\* that the validator rejects (an empty string and a null among them) has its
\* own position replaced by the extractive fallback of that input item, and
\* nothing else happens: batch_summarize returns the reconciled result, not the
\* all-extractive batch, and every position whose candidate is valid keeps it.
C9_SingleItemReplacement ==
    (/\ pc = "done" /\ stage # "none" /\ response.top = "object"
     /\ \A key \in DOMAIN data : StringsOrNulls(key))
    => /\ path = "success"
       /\ \A key \in KeySet : \A i \in 1..Len(out[key].v) :
             i <= Len(data[key].v) =>
                IF verdicts[data[key].v[i]] = "valid"
                THEN out[key].v[i] = data[key].v[i].s
                ELSE HoldsFallback(key, i)

\* a null between two valid candidates: the null alone is replaced
C9_NullBetweenValid ==
    /\ Parsed
    /\ \E key \in KeySet :
          /\ StringsOrNulls(key) /\ Len(data[key].v) = 3 /\ Len(out[key].v) = 3
          /\ data[key].v[2] = None /\ HoldsFallback(key, 2)
          /\ KeepsCandidate(key, 1) /\ KeepsCandidate(key, 3)
          /\ out[key].v # extractive[key]

\* C10: when the response gives k candidates for a section of n > k items, the
\* output of the section has n entries, the entries after the first k are the
\* extractive fallbacks of the items after the first k, in their order, and
\* each of the first k entries is the candidate of its index or, where the
\* validator rejects that candidate, the fallback of the item of that index.
C10_Padding ==
    Parsed =>
        \A key \in KeySet :
            (IsArray(key) /\ Len(data[key].v) < Len(extractive[key])) =>
                /\ Len(out[key].v) = Len(extractive[key])
                /\ \A i \in (Len(data[key].v) + 1)..Len(extractive[key]) :
                      out[key].v[i] = extractive[key][i]
                /\ \A i \in 1..Len(data[key].v) :
                      KeepsCandidate(key, i) \/ HoldsFallback(key, i)

\* three items and two candidates: the third entry is the fallback of the third
\* item, the first two are the candidates
C10_ThreeExpectedTwoReceived ==
    /\ Parsed
    /\ \E key \in DOMAIN sections :
          /\ Len(sections[key]) = 3 /\ IsArray(key) /\ Len(data[key].v) = 2
          /\ Len(out[key].v) = 3
          /\ KeepsCandidate(key, 1) /\ KeepsCandidate(key, 2)
          /\ out[key].v[3] = extractive[key][3]
          /\ extractive[key][3] # extractive[key][1]

\* the first entries of the array under key, as many as the section has items,
\* are strings or nulls
HeadStringsOrNulls(key) ==
    /\ IsArray(key)
    /\ \A i \in 1..Min(Len(data[key].v), Len(extractive[key])) :
          data[key].v[i].kind \in {"str", "none"}

\* C11: when the response gives more candidates than the section has items,
\* the output of the section holds the first n of them in their order (each
\* kept when the validator accepts it, replaced by the fallback of its item
\* otherwise) and nothing of the surplus; the surplus is no failure: a turn of
\* the loop raises only for a value that is no array or for an element among
\* the first n, whatever the surplus holds.
C11_Truncation ==
    /\ Parsed =>
          \A key \in KeySet :
              (IsArray(key) /\ Len(data[key].v) > Len(extractive[key])) =>
                  /\ Len(out[key].v) = Len(extractive[key])
                  /\ \A i \in 1..Len(extractive[key]) :
                        IF verdicts[data[key].v[i]] = "valid"
                        THEN out[key].v[i] = data[key].v[i].s
                        ELSE out[key].v[i] = extractive[key][i]
    /\ (pc = "done" /\ path = "reconcile_error" /\ response.top = "object") =>
          ~HeadStringsOrNulls(Keys[ki])

\* two items and three candidates, the third no string: the first two
\* candidates are the output, and another section keeps its candidate
C11_SurplusDiscarded ==
    /\ Parsed
    /\ \E key, other \in DOMAIN sections :
          /\ key # other
          /\ Len(sections[key]) = 2 /\ IsArray(key) /\ Len(data[key].v) = 3
          /\ data[key].v[3] = Num
          /\ Len(out[key].v) = 2 /\ KeepsCandidate(key, 1) /\ KeepsCandidate(key, 2)
          /\ Len(sections[other]) = 1 /\ KeepsCandidate(other, 1)

\* the extractive summarizer fills position i of key: the response holds no
\* candidate there, or one that the validator rejects
FilledByFallback(key, i) ==
    i > Len(data[key].v) \/ verdicts[data[key].v[i]] # "valid"

\* C12: in the reconciled result every position that the extractive summarizer
\* fills, by padding or by replacement, holds the extractive fallback of the
\* input item of that position, whatever the validator says of that string;
\* no position is dropped.
C12_FallbackKept ==
    Parsed =>
        \A key \in KeySet : IsArray(key) =>
            /\ Len(out[key].v) = Len(extractive[key])
            /\ \A i \in 1..Len(extractive[key]) :
                  FilledByFallback(key, i) => out[key].v[i] = extractive[key][i]

\* a padded position and a replaced position whose fallbacks the validator
\* would reject, both in the output
C12_RejectedFallbackKept ==
    /\ Parsed
    /\ \E key \in KeySet : \E i, j \in 1..Len(extractive[key]) :
          /\ IsArray(key)
          /\ i <= Len(data[key].v) /\ verdicts[data[key].v[i]] # "valid"
          /\ j > Len(data[key].v)
          /\ verdicts[Str(extractive[key][i])] # "valid"
          /\ verdicts[Str(extractive[key][j])] # "valid"
          /\ out[key].v[i] = extractive[key][i] /\ out[key].v[j] = extractive[key][j]

(***************************************************************************)
(* Properties of _validate_summary                                         *)
(***************************************************************************)
\* the order of the checks as the specification gives it
CheckOrder == <<"empty or too short", "too few bullets", "starts with lowercase",
                "starts with URL", "contains raw text indicator", "appears cut off",
                "vague filler detected">>

\* the checks of CheckOrder that the string fails, by their place in it
FailedChecks(text) == {k \in 1..Len(CheckOrder) : CheckFails(text, CheckOrder[k])}

\* C13: for a string, the verdict of _validate_summary is valid exactly when
\* the string fails no check, and otherwise it is the reason of the earliest
\* check, in the order empty or too short, bullet segmentation, lowercase
\* start, leading URL, boilerplate marker, cut-off ending, vague filler, that
\* the string fails.
C13_CheckOrder ==
    (pc = "validated" /\ data.summary.kind = "str") =>
        IF FailedChecks(data.summary.s) = {}
        THEN result.issue = "valid"
        ELSE result.issue = CheckOrder[MinOf(FailedChecks(data.summary.s))]

\* a candidate failing the lowercase, the URL, the cut-off and the vague
\* check, rejected for the lowercase start
C13_SeveralChecksFail ==
    /\ pc = "validated" /\ data.summary.kind = "str"
    /\ FailedChecks(data.summary.s) = {3, 4, 6, 7}
    /\ result.issue = "starts with lowercase"

\* C14 as the specification states it: the meta-referential example is
\* rejected as vague filler, and the two-bullet example is valid.
C14_Examples ==
    pc = "validated" =>
        /\ data.summary = Str(MetaReferential) => result.issue = "vague filler detected"
        /\ data.summary = Str(TwoBulletFacts) => result.issue = "valid"

\* C15 as the specification states it: for a string, a null or another JSON
\* value, the call returns valid or the reason of a check; it never raises.
C15_ValidatorTotal ==
    pc # "validate" =>
        /\ pc = "validated"
        /\ result.issue \in {"valid"} \cup SeqToSet(CheckOrder)



(***************************************************************************)
(* Properties of _parse_response on the text of a response                 *)
(***************************************************************************)
\* the members of the response are arrays of strings
QuotedStrings(members) ==
    \A m \in 1..Len(members) : \A i \in 1..Len(members[m].elems) :
        members[m].elems[i].kind = "str"

\* the parsed data hold every member with all of its elements, in order
Recovered(members) ==
    /\ DOMAIN data = {members[m].key : m \in 1..Len(members)}
    /\ \A m \in 1..Len(members) : data[members[m].key] = ListValue(members[m].elems)

\* C16: a response that lacks its final closing brace, its arrays being
\* well-formed arrays of quoted strings, is parsed without an error, and the
\* bracket-matching fallback recovers every section of the text with all of
\* its items, in order and with their content.
C16_TruncatedRecovered ==
    (/\ response.damage = "open" /\ response.members # <<>>
     /\ QuotedStrings(response.members)
     /\ pc \in {"reconcile", "done"})
        => stage = "manual" /\ Recovered(response.members)

\* the pattern of lines 150-151 matches somewhere in the repaired text
Located(key) == \E p \in 1..Len(response.fixed) : KeyMatchEnd(response.fixed, key, p) # 0

\* C17: once both parses have failed, the manual recovery counts as a parse
\* exactly when it locates the array of one section key at least; every
\* section it did not locate then holds the extractive fallbacks of its items,
\* and when it locates none the whole batch is the all-extractive fallback.
C17_ManualRecovery ==
    (pc \in {"reconcile", "done"} /\ ~parses.strict.ok /\ ~parses.repaired.ok)
        => /\ stage = "manual" <=> \E key \in KeySet : Located(key)
           /\ stage = "manual" <=> path # "parse_failure"
           /\ path = "parse_failure" => out = AsLists(extractive)
           /\ (stage = "manual" /\ pc = "done")
                 => /\ path = "success"
                    /\ \A key \in KeySet : ~Located(key) => out[key].v = extractive[key]

\* the news are located, the papers are not and their item holds its fallback
C17_OneSectionLocated ==
    /\ stage = "manual" /\ pc = "done"
    /\ Located("news") /\ ~Located("papers")
    /\ Len(extractive["papers"]) = 1
    /\ out["papers"].v = extractive["papers"]

\* C20: the stages run in order, each after the one before it has failed: the
\* fence is stripped before the first parse, the repair of the trailing commas
\* is applied only to a text that line 202 rejects, and the manual recovery
\* runs only when the repaired text is rejected too.
C20_StagesInOrder ==
    [][/\ (pc' # pc /\ pc' = "strict")
             => pc = "parse" /\ response'.cleaned = StripFence(response.text)
       /\ (pc' # pc /\ pc' = "repair") => pc = "strict" /\ ~parses.strict.ok
       /\ response'.fixed # response.fixed => pc = "strict" /\ ~parses.strict.ok
       /\ (pc' # pc /\ pc' = "manual")
             => pc = "repair" /\ ~parses.strict.ok /\ ~parses.repaired.ok
       /\ stage' # stage
             => CASE stage' = "strict" -> pc = "strict" /\ data' = AsValues(parses.strict.v)
                  [] stage' = "repaired" -> pc = "repair" /\ ~parses.strict.ok
                  [] stage' = "manual" ->
                        pc = "manual" /\ ~parses.strict.ok /\ ~parses.repaired.ok]_vars

\* a fenced response that only the manual recovery could read
C20_FencedAndManual ==
    /\ stage = "manual" /\ pc = "done"
    /\ response.fence = "json" /\ response.cleaned # response.text

(***************************************************************************)
(* Properties of the extractive fallback                                   *)
(***************************************************************************)
\* C18: with no credential the output is the same whatever the order in which
\* the words of a title are walked: two invocations on equal batches return
\* equal outputs (sumy doing the same in both).
C18_NoCredentialDeterminism ==
    (~api_key /\ pc = "done") => \A walk \in Walks : out = AsLists(walked[walk])

\* an entry of the output in which two words of the title are bold
C18_TwoTitleWordsBold ==
    /\ ~api_key /\ pc = "done"
    /\ \E key \in DOMAIN out : \E i \in 1..Len(out[key].v) :
          /\ Contains(out[key].v[i], Strong(<<"F","e","d">>))
          /\ Contains(out[key].v[i], Strong(<<"S","t","o","c","k","s">>))

NoBrackets(members) ==
    \A m \in 1..Len(members) : \A i \in 1..Len(members[m].elems) :
        \A j \in 1..Len(members[m].elems[i].s) : members[m].elems[i].s[j] \notin {"[", "]"}

\* C21: in the manual recovery of arrays that are whole, every quoted string
\* of an array gives exactly one item, the text between its quotes, whatever
\* escaped quotes and backslashes it holds: none is split, none is merged
\* with its neighbour.
C21_OneItemPerString ==
    (/\ stage = "manual" /\ response.damage = "open"
     /\ QuotedStrings(response.members) /\ NoBrackets(response.members))
        => \A m \in 1..Len(response.members) :
              /\ response.members[m].key \in DOMAIN data
              /\ data[response.members[m].key] =
                    ListValue([i \in 1..Len(response.members[m].elems) |->
                                  Str(JsonEscape(response.members[m].elems[i].s))])

(***************************************************************************)
(* Properties of the reconciliation                                        *)
(***************************************************************************)
\* the elements of the parsed list of a key that lines 222-224 keep
Kept(key) == Take(data[key].v, Min(Len(data[key].v), Len(extractive[key])))

\* C22: in the reconciliation of a section only the candidates of the backend
\* are handed to _validate_summary: an entry padded in from the extractive
\* fallback is not, and so gives no warning of a bad summary.
C22_OnlyCandidatesValidated ==
    \A key \in DOMAIN result :
        data[key].shape \in {"absent", "list"} => result[key].checked = Kept(key)

(***************************************************************************)
(* Properties of _build_prompt                                             *)
(***************************************************************************)
\* the length under which a text is replaced by the placeholder (lines 90,
\* 107, 118, 126), and the most characters of a text that a line carries
\* (lines 89, 106 and 111, 117, 125)
MinimumUsable(key) == CASE key = "podcasts" -> 200 [] key = "papers" -> 50 [] OTHER -> 100
CharacterBudget(key) == CASE key = "podcasts" -> 7800 [] key = "papers" -> 1500 [] OTHER -> 3000

\* C23: the text that a line of the prompt carries for an item is the
\* placeholder, or it has the minimum usable length of its section at least;
\* and it has the character budget of its section at most (for a podcast, the
\* 7800 characters of the window [200:8000]).
C23_UsableOrPlaceholder ==
    pc = "call" =>
        \A n \in 1..Len(prompt) :
            \/ prompt[n].text.placeholder
            \/ /\ Len(prompt[n].text.s) >= MinimumUsable(prompt[n].key)
               /\ Len(prompt[n].text.s) <= CharacterBudget(prompt[n].key)

(***************************************************************************)
(* Frame of batch_summarize                                                *)
(***************************************************************************)
\* C24: no step of batch_summarize and of its helpers changes the batch it was
\* given: on every path each section keeps its items, in their order, with
\* their title and raw_text.
C24_BatchUnchanged == [][sections' = sections]_vars

\* a section whose list was too short and held a bad summary: its fallbacks
\* were padded in and substituted, and batch_summarize has returned
C24_PaddedAndReplaced ==
    /\ Parsed
    /\ \E key \in DOMAIN sections :
          /\ StringsOrNulls(key)
          /\ 0 < Len(data[key].v) /\ Len(data[key].v) < Len(sections[key])
          /\ verdicts[data[key].v[1]] # "valid"

(***************************************************************************)
(* Properties of _fallback_section                                         *)
(***************************************************************************)
\* the summary of line 323 is empty or has fewer than 20 characters
TooShort(raw) == raw = <<>> \/ Len(Strip(raw)) < 20

\* entry is one to three bullets joined by <br>, bullet j opening with emoji j
\* of the rotation and a blank, and ending with a period
RotatedBullets(entry, section_emojis) ==
    /\ Len(Split(entry, BR)) \in 1..3
    /\ \A j \in 1..Len(Split(entry, BR)) :
          /\ StartsWith(Split(entry, BR)[j], section_emojis[j] \o <<" ">>)
          /\ EndsWith(Split(entry, BR)[j], <<".">>)
          /\ Len(Split(entry, BR)[j]) >= Len(section_emojis[j]) + 2

C26_StartsUpperOrEmoji ==
    (pc = "validated" /\ result.issue = "valid")
        => Strip(data.summary.s)[1] \in Upper \cup EmojiClass

(***************************************************************************)
(* Shape of the mapping that batch_summarize returns                       *)
(***************************************************************************)
\* C27: the mapping that batch_summarize returns has exactly the four section
\* keys, on every path, and under a key that the batch does not hold it has
\* the empty list.
C27_ExactlyFourKeys ==
    pc = "done" =>
        /\ DOMAIN out = KeySet
        /\ \A key \in KeySet \ DOMAIN sections : out[key] = Returned("list", <<>>)

(***************************************************************************)
(* A parsed response without section keys                                  *)
(***************************************************************************)
\* C28: a response that json.loads accepts (as it is or repaired) and that
\* holds none of the four section keys gives the output of the all-extractive
\* fallback of the batch, entry for entry: every entry is padded in.
C28_NoKeysAsFallback ==
    (/\ pc = "done" /\ stage \in {"strict", "repaired"}
     /\ DOMAIN data \cap KeySet = {})
        => path = "success" /\ out = AsLists(extractive)

\* the empty object for a batch of which one fallback passes the validator
\* and another does not
C28_EmptyObjectPadded ==
    /\ pc = "done" /\ path = "success" /\ stage = "strict"
    /\ DOMAIN data = {}
    /\ \E key \in KeySet : \E i \in 1..Len(extractive[key]) :
          verdicts[Str(extractive[key][i])] = "valid"
    /\ \E key \in KeySet : \E i \in 1..Len(extractive[key]) :
          verdicts[Str(extractive[key][i])] # "valid"

(***************************************************************************)
(* A parsed response of the wrong shape                                    *)
(***************************************************************************)
\* the parsed response is no object, or it holds under a section key a value
\* that is no array of strings
WrongShape ==
    \/ response.top = "other"
    \/ \E key \in DOMAIN data :
          \/ data[key].shape \notin {"absent", "list"}
          \/ \E i \in 1..Len(data[key].v) : data[key].v[i].kind # "str"

\* C29: when the response is JSON of the wrong shape, batch_summarize returns
\* under every section key a list of as many non-empty strings as the section
\* has items, and each of them is the extractive fallback of its item or a
\* candidate of the response that the validator accepts.
C29_WrongShapeContained ==
    (pc = "done" /\ stage \in {"strict", "repaired"} /\ WrongShape)
        => \A key \in KeySet :
              /\ key \in DOMAIN out
              /\ out[key].shape = "list"
              /\ Len(out[key].v) = Len(SectionItems(sections, key))
              /\ \A i \in 1..Len(out[key].v) :
                    /\ out[key].v[i] # <<>>
                    /\ HoldsFallback(key, i) \/ KeepsCandidate(key, i)

(***************************************************************************)
(* The bracket scan of _extract_arrays_fallback                            *)
(***************************************************************************)
\* no string of the members holds a quote or a backslash
NoEscapes(members) ==
    \A m \in 1..Len(members) : \A i \in 1..Len(members[m].elems) :
        \A j \in 1..Len(members[m].elems[i].s) : members[m].elems[i].s[j] \notin {"\"", "\\"}

\* C30: the scan for the end of an array stops at the bracket that closes the
\* array, whatever brackets the strings of the array hold, and at the end of
\* the text when that bracket is missing: the manual recovery gives all the
\* strings of every array of the text, also of a last array that has lost its
\* closing bracket.
C30_ScanEndsAtClosingBracket ==
    (/\ stage = "manual" /\ response.damage \in {"open", "cut"}
     /\ QuotedStrings(response.members) /\ NoEscapes(response.members))
        => \A m \in 1..Len(response.members) :
              /\ response.members[m].key \in DOMAIN data
              /\ data[response.members[m].key].v = response.members[m].elems


=============================================================================
